---------------------------- MODULE Spec2Model ----------------------------
(***************************************************************************)
(* Model of the rate aggregation pipeline of currency_converter:           *)
(*   app/services/circuit_breaker.py   CircuitBreaker                      *)
(*   app/cache/redis_manager.py        RedisManager (breaker keys, rates)  *)
(*   app/services/rate_aggregator.py   RateAggregatorService               *)
(*   app/workers/rate_ingestor.py      RateIngestorWorker                  *)
(*   app/api/routes/websockets.py      ConnectionManager, the endpoint     *)
(*                                                                         *)
(* Time is counted in ticks.  A Redis key carries its remaining time to    *)
(* live, a time stamp carries its age; Tick lets one unit of time pass.    *)
(* Durations are scaled to small tick counts that keep their order:        *)
(* recovery_timeout (60 s) < RATE_CACHE_TTL (300 s) < CIRCUIT_BREAKER_TTL  *)
(* (3600 s).  Redis commands themselves succeed; the reads whose failure   *)
(* the breaker and the aggregator handle explicitly (the last-failure      *)
(* stamp, the durable-store lookup) take their outcome as an input.        *)
(***************************************************************************)
EXTENDS Integers, Sequences, FiniteSets, TLC

(***************************************************************************)
(* Configuration                                                           *)
(***************************************************************************)

\* service_factory.py: the three providers, in dict insertion order.
ProviderOrder == <<"FixerIO", "OpenExchange", "CurrencyAPI">>

Providers == {ProviderOrder[i] : i \in 1..Len(ProviderOrder)}

primary_provider == "FixerIO"

\* CircuitBreaker constructor parameters (thresholds of the state machine).
failure_threshold == 2

success_threshold == 2

\* Cooldown before an OPEN breaker admits a probe, in ticks.
recovery_timeout == 1

\* RedisManager.CIRCUIT_BREAKER_TTL, in ticks.
CIRCUIT_BREAKER_TTL == 3

\* RedisManager.RATE_CACHE_TTL, in ticks.
RATE_CACHE_TTL == 2

\* CircuitBreakerState, and "nil" for a key that is not in Redis.
CLOSED == "CLOSED"

OPEN == "OPEN"

HALF_OPEN == "HALF_OPEN"

(***************************************************************************)
(* The breaker of one provider: its three Redis keys                       *)
(*   circuit_breaker:<id>:state / :failures / :last_failure                *)
(* each with its remaining TTL (0 and the value "nil" / -1: key absent),   *)
(* and the in-process counter _consecutive_successes.  last_failure holds  *)
(* the age of the stamp written by the last OPEN transition.               *)
(***************************************************************************)

NewBreaker ==
    [ state |-> "nil", state_ttl |-> 0,
      failures |-> -1, failures_ttl |-> 0,
      last_failure |-> -1, last_failure_ttl |-> 0,
      consecutive_successes |-> 0 ]

\* RedisManager.get_circuit_breaker_state: a missing key reads CLOSED.
get_circuit_breaker_state(b) ==
    IF b.state = "nil" THEN CLOSED ELSE b.state

\* RedisManager.get_failure_count: a missing key reads 0.
get_failure_count(b) ==
    IF b.failures = -1 THEN 0 ELSE b.failures

\* A state write that leaves the last-failure stamp to a later command.
set_circuit_breaker_state_unstamped(b, new_state, failure_count) ==
    [b EXCEPT !.state = new_state,
              !.state_ttl = CIRCUIT_BREAKER_TTL,
              !.failures = failure_count,
              !.failures_ttl = CIRCUIT_BREAKER_TTL]

\* RedisManager.set_circuit_breaker_state: one pipeline writes state and
\* failures with the breaker TTL, and the last-failure stamp when opening.
set_circuit_breaker_state(b, new_state, failure_count) ==
    LET s == [b EXCEPT !.state = new_state,
                       !.state_ttl = CIRCUIT_BREAKER_TTL,
                       !.failures = failure_count,
                       !.failures_ttl = CIRCUIT_BREAKER_TTL]
    IN  IF new_state = OPEN
        THEN [s EXCEPT !.last_failure = 0,
                       !.last_failure_ttl = CIRCUIT_BREAKER_TTL]
        ELSE s

\* RedisManager.increment_failure_count: INCR then EXPIRE in one transaction.
increment_failure_count(b) ==
    [b EXCEPT !.failures = get_failure_count(b) + 1,
              !.failures_ttl = CIRCUIT_BREAKER_TTL]

\* RedisManager.reset_failure_count: DEL of the failures key.
reset_failure_count(b) ==
    [b EXCEPT !.failures = -1, !.failures_ttl = 0]

\* CircuitBreaker._transition_to_closed
transition_to_closed(b) ==
    [reset_failure_count(set_circuit_breaker_state(b, CLOSED, 0))
        EXCEPT !.consecutive_successes = 0]

\* CircuitBreaker._transition_to_open
transition_to_open(b) ==
    [set_circuit_breaker_state(b, OPEN, get_failure_count(b))
        EXCEPT !.consecutive_successes = 0]

\* CircuitBreaker._transition_to_half_open
transition_to_half_open(b) ==
    [set_circuit_breaker_state(b, HALF_OPEN, 0)
        EXCEPT !.consecutive_successes = 0]

\* A cooldown that counts as elapsed only once it is exceeded.
should_attempt_reset_late(b, readable) ==
    IF ~readable THEN TRUE
    ELSE IF b.last_failure = -1 THEN TRUE
    ELSE b.last_failure > recovery_timeout

\* CircuitBreaker._should_attempt_reset.  readable = FALSE: the read of the
\* stamp (or its parsing) raised, which both except branches answer with
\* "elapsed".
should_attempt_reset(b, readable) ==
    IF ~readable THEN TRUE
    ELSE IF b.last_failure = -1 THEN TRUE
    ELSE b.last_failure >= recovery_timeout

\* A recovery that closes only once the success threshold is exceeded.
on_success_late(b) ==
    LET current_state == get_circuit_breaker_state(b)
    IN  IF current_state = HALF_OPEN
        THEN LET c == [b EXCEPT !.consecutive_successes = @ + 1]
             IN  IF c.consecutive_successes > success_threshold
                 THEN transition_to_closed(c)
                 ELSE c
        ELSE IF current_state = CLOSED
        THEN reset_failure_count(b)
        ELSE b

\* CircuitBreaker._on_success
on_success(b) ==
    LET current_state == get_circuit_breaker_state(b)
    IN  IF current_state = HALF_OPEN
        THEN LET c == [b EXCEPT !.consecutive_successes = @ + 1]
             IN  IF c.consecutive_successes >= success_threshold
                 THEN transition_to_closed(c)
                 ELSE c
        ELSE IF current_state = CLOSED
        THEN reset_failure_count(b)
        ELSE b

\* A breaker that opens only once the failure threshold is exceeded.
on_failure_late(b) ==
    LET current_state == get_circuit_breaker_state(b)
    IN  IF current_state = HALF_OPEN
        THEN transition_to_open([b EXCEPT !.consecutive_successes = 0])
        ELSE LET c == increment_failure_count(b)
             IN  IF get_failure_count(c) > failure_threshold
                 THEN transition_to_open(c)
                 ELSE c

\* CircuitBreaker._on_failure
on_failure(b) ==
    LET current_state == get_circuit_breaker_state(b)
    IN  IF current_state = HALF_OPEN
        THEN transition_to_open([b EXCEPT !.consecutive_successes = 0])
        ELSE LET c == increment_failure_count(b)
             IN  IF get_failure_count(c) >= failure_threshold
                 THEN transition_to_open(c)
                 ELSE c

\* CircuitBreaker.call, up to the invocation of the wrapped function:
\* the breaker after the admission decision, and whether the call is
\* rejected with CircuitBreakerError.
Admission(b, readable) ==
    IF get_circuit_breaker_state(b) = OPEN
    THEN IF should_attempt_reset(b, readable)
         THEN [rejected |-> FALSE, b |-> transition_to_half_open(b)]
         ELSE [rejected |-> TRUE, b |-> b]
    ELSE [rejected |-> FALSE, b |-> b]

\* CircuitBreaker.call: raised = the wrapped function raised.  The result
\* names what the caller sees: "blocked" (CircuitBreakerError), "raised"
\* (the function's exception re-raised) or "returned".
BreakerCall(b, raised, readable) ==
    LET a == Admission(b, readable)
    IN  IF a.rejected THEN [b |-> a.b, result |-> "blocked"]
        ELSE IF raised THEN [b |-> on_failure(a.b), result |-> "raised"]
        ELSE [b |-> on_success(a.b), result |-> "returned"]

\* A tick under which the state key never expires.
TickBreaker_state_kept(b) ==
    [b EXCEPT
       !.failures = IF b.failures_ttl <= 1 THEN -1 ELSE @,
       !.failures_ttl = IF b.failures_ttl <= 1 THEN 0 ELSE @ - 1,
       !.last_failure = IF b.last_failure_ttl <= 1 THEN -1 ELSE @ + 1,
       !.last_failure_ttl = IF b.last_failure_ttl <= 1 THEN 0 ELSE @ - 1]

\* One tick of time on a breaker's keys: TTLs run down, expired keys
\* vanish, the stamp ages.
TickBreaker(b) ==
    [b EXCEPT
       !.state = IF b.state_ttl <= 1 THEN "nil" ELSE @,
       !.state_ttl = IF b.state_ttl <= 1 THEN 0 ELSE @ - 1,
       !.failures = IF b.failures_ttl <= 1 THEN -1 ELSE @,
       !.failures_ttl = IF b.failures_ttl <= 1 THEN 0 ELSE @ - 1,
       !.last_failure = IF b.last_failure_ttl <= 1 THEN -1 ELSE @ + 1,
       !.last_failure_ttl = IF b.last_failure_ttl <= 1 THEN 0 ELSE @ - 1]

(***************************************************************************)
(* Rates.  A Decimal is an integer count of hundredths.  Decimal division  *)
(* is exact while the quotient fits the context precision and rounds       *)
(* half-even beyond it; the model's precision is the hundredth, and the    *)
(* provider rates are even so that halving stays exact, as it is for       *)
(* Decimal, while a division by three rounds.                              *)
(***************************************************************************)

Rates == {100, 120, 320}

\* rate_aggregator.py line 252: max_deviation >= 1.0, in hundredths.
DEVIATION_THRESHOLD == 100

Abs(x) == IF x < 0 THEN -x ELSE x

RECURSIVE SumSeq(_)
SumSeq(s) == IF s = <<>> THEN 0 ELSE Head(s) + SumSeq(Tail(s))

\* Decimal(sum(rates) / len(rates)): the quotient, rounded half-even.
DecimalDiv(total, n) ==
    LET q == total \div n
        r == total % n
    IN  IF 2 * r < n THEN q
        ELSE IF 2 * r > n THEN q + 1
        ELSE IF q % 2 = 0 THEN q ELSE q + 1

MaxDeviation(all_rates, avg_rate) ==
    LET devs == {Abs(all_rates[i] - avg_rate) : i \in 1..Len(all_rates)}
    IN  CHOOSE d \in devs : \A e \in devs : e <= d

(***************************************************************************)
(* Provider calls.  A provider's get_exchange_rate either raises (timeout, *)
(* HTTP error: _make_request re-raises), returns a Call Result whose       *)
(* payload signals an error (was_successful = False), or returns a rate.   *)
(***************************************************************************)

Outcomes ==
    {[kind |-> "raise", rate |-> 0], [kind |-> "payload", rate |-> 0]}
    \cup {[kind |-> "ok", rate |-> r] : r \in Rates}

\* A provider that is invoked whatever its breaker says.
try_provider_through(b, outcome, readable) ==
    [ b |-> b, seen |-> outcome.kind, invoked |-> TRUE,
      rate |-> outcome.rate ]

\* A breaker that is told of a failure whenever no rate came back.
try_provider_strict(b, outcome, readable) ==
    LET c == BreakerCall(b, outcome.kind # "ok", readable)
    IN  [ b |-> c.b,
          seen |-> IF c.result = "blocked" THEN "blocked" ELSE outcome.kind,
          invoked |-> c.result # "blocked",
          rate |-> outcome.rate ]

\* RateAggregatorService._try_provider: the provider's call through its
\* breaker.  seen is what fusion gets: "ok" (a successful Call Result),
\* "payload" (an unsuccessful one), "raise" or "blocked" (None).
try_provider(b, outcome, readable) ==
    LET c == BreakerCall(b, outcome.kind = "raise", readable)
    IN  [ b |-> c.b,
          seen |-> IF c.result = "blocked" THEN "blocked" ELSE outcome.kind,
          invoked |-> c.result # "blocked",
          rate |-> outcome.rate ]

\* _try_secondary_providers: the providers other than the primary, in the
\* order of the providers dict.
SecondaryProviders ==
    SelectSeq(ProviderOrder, LAMBDA n : n # primary_provider)

(***************************************************************************)
(* State                                                                   *)
(***************************************************************************)

\* The (base, target) pairs requested.
Pairs == {<<"USD", "EUR">>}

\* Ages of durable rows are counted up to this many ticks.
MaxAge == 3

\* get_exchange_rate is called at most this many times in a behaviour.
MaxCalls == 3

VARIABLES
    cb,         \* provider -> its breaker (Redis keys and in-process counter)
    rates,      \* pair -> the Redis entry rates:BASE:TARGET
    history,    \* pair -> the newest successful ExchangeRate rows of the pair
    response,   \* what the last get_exchange_rate call returned or raised
    probe,      \* that call's inputs, the state it met, what it did on the way
    cb_event,   \* the last direct CircuitBreaker.call and what it did
    fail_run,   \* failed calls in a row since CLOSED with failure count 0
    fail_run_fresh, \* the same, counted anew when the failures key expires
    ho_successes,   \* successful calls in a row in the current HALF_OPEN
    calls,      \* get_exchange_rate calls made so far
    worker,     \* the RateIngestorWorker: its loop, its cycle, its publishes
    ws,         \* the WebSocket side: registry, handlers, what was sent
    validator,  \* the CurrencyManager's three tiers and its last answer
    flight      \* the coroutines inside one provider's breaker, step by step

vars == <<cb, rates, history, response, probe, cb_event, fail_run,
          fail_run_fresh, ho_successes, calls, worker, ws, validator,
                   flight>>

\* A missing rates:BASE:TARGET key.
NoEntry ==
    [ ttl |-> 0, rate |-> [int |-> 0, frac |-> 0], confidence_level |-> "", sources_used |-> <<>>,
      is_primary_used |-> FALSE, timestamp |-> 0, warnings |-> <<>> ]

NoHistory == [age |-> 0, rows |-> {}]

NoStale == [provider |-> "", rate |-> 0, age |-> -1]

NoResponse == [kind |-> "none"]

NoProbe == [kind |-> "none"]

NoEvent == [kind |-> "none"]

\* RateIngestorWorker.base_currencies, and target_currencies in the order
\* the worker's loop visits them.  WORKER_BASE_CURRENCIES and
\* WORKER_TARGET_CURRENCIES are independent lists: a base may be a target
\* as well, as USD is here.
base_currencies == <<"USD", "EUR">>

target_currencies == <<"NGN", "USD">>

\* The pairs of one ingestor cycle, base by base.
PairList ==
    [k \in 1..(Len(base_currencies) * Len(target_currencies)) |->
        << base_currencies[((k - 1) \div Len(target_currencies)) + 1],
           target_currencies[((k - 1) % Len(target_currencies)) + 1] >>]

WorkerPairs == {PairList[k] : k \in DOMAIN PairList}

\* The ingestor starts at most this many cycles in a behaviour.
MaxCycles == 2

\* WORKER_UPDATE_INTERVAL (120 s), shorter than RATE_CACHE_TTL.
update_interval == 1

\* RateIngestorWorker.__init__.  pc is the place of run(): "start" before
\* it is called, "check" at the loop's test, "cycle" inside update_cycle,
\* "sleep" in asyncio.sleep, "exited" after the loop.  next is the place of
\* each base's fetch_and_publish_for_base in the targets; results is its
\* results dictionary.  published counts the messages on rates:broadcast.
\* wrote and sent record the cache writes and publishes of the current
\* cycle, healthy that every call so far met valid currencies and healthy
\* providers, stopped_in where run() was when stop() was called, contacted
\* the providers whose breaker a pair's call of the current cycle went to.  Where
\* the awaits of one pass are told apart: phase is the await a base stands
\* at ("fetch", "write", "publish"), held its rate_result, wrote_in and
\* sent_in the cycle of the last set_latest_rate and publish of a pair.
NewWorker ==
    [ is_running |-> FALSE, pc |-> "start", cycle_count |-> 0,
      next |-> [i \in DOMAIN base_currencies |-> 1],
      results |-> [pair \in WorkerPairs |-> "none"],
      published |-> [pair \in WorkerPairs |-> 0],
      wrote |-> [pair \in WorkerPairs |-> FALSE],
      sent |-> [pair \in WorkerPairs |-> FALSE],
      healthy |-> TRUE, stopped_in |-> "",
      contacted |-> [pair \in WorkerPairs |-> {}],
      phase |-> [i \in DOMAIN base_currencies |-> "fetch"],
      held |-> [i \in DOMAIN base_currencies |-> NoResponse],
      wrote_in |-> [pair \in WorkerPairs |-> 0],
      sent_in |-> [pair \in WorkerPairs |-> 0] ]

\* No broadcast is running.
NoBroadcast ==
    [ pc |-> "idle", pair |-> "", targets |-> {}, used |-> 0, visited |-> {},
      sending |-> "", sent |-> {}, failed_connections |-> {} ]

\* The WebSocket clients that may connect.
Clients == {"c1", "c2"}

\* At most this many messages are published or broadcast in a behaviour.
MaxMessages == 2

\* No client has connected.  active_connections is the registry of
\* ConnectionManager.__init__; handler[c] is the websocket_rates_endpoint
\* call of client c: where it is ("none" before the connection, "listening"
\* in its pub/sub loop, "closed" after it), its subscribed_pairs (None and
\* the empty set both mean every pair), the handle of its
\* subscribe_to_rates iterator ("none", "subscribed", "closing" while the
\* abandoned iterator awaits its disposal, "closed", "leaked" when it was
\* left without close()) and the messages that subscription holds for it.
\* peer is the client's end of the socket.  The other fields record what
\* happened: send_failed that a send of the handler raised, after_gone that
\* the loop handled a message after the client had gone, dropped that a
\* payload was dropped, yielded_after_drop that a message was yielded after
\* that, raised where an exception of the iterator went.  seen[c] are the
\* pairs of the messages that were handled for c, got[c] those of the
\* messages passed to its send_json; messages counts the published and the
\* broadcast messages.  bc is a ConnectionManager.broadcast told apart
\* await by await: its place, its pair, the sockets registered and let
\* through by their filter when it started, the dictionary iterator (the
\* size it was created with, the keys it has passed), the socket whose
\* send it awaits, the sockets it sent to and failed_connections.
NewHandler ==
    [ pc |-> "none", subscribed_pairs |-> {}, pubsub |-> "none",
      queue |-> <<>>, peer |-> "open", send_failed |-> FALSE,
      after_gone |-> FALSE, dropped |-> FALSE, yielded_after_drop |-> FALSE,
      raised |-> "no" ]

NewHub ==
    [ active_connections |-> [c \in {} |-> {}],
      handler |-> [c \in Clients |-> NewHandler],
      seen |-> [c \in Clients |-> {}],
      got |-> [c \in Clients |-> {}],
      messages |-> 0,
      bc |-> NoBroadcast ]

\* The pairs validate_currencies is asked about: two popular codes, a
\* popular code with a listed one, a popular code with one no provider
\* lists.
ValidatedPairs == {<<"USD", "EUR">>, <<"USD", "SEK">>, <<"USD", "XXX">>}

\* CurrencyManager.POPULAR_CURRENCIES, cut down to two codes.
POPULAR_CURRENCIES == {"USD", "EUR"}

\* TTL of a positive and of a negative validation entry (900 s, 300 s).
VALID_TTL == 2

INVALID_TTL == 1

\* A missing currency_validation:BASE_TARGET key.
NoVerdict == [ttl |-> 0, valid |-> FALSE, error_message |-> ""]

NoAnswer == [kind |-> "none"]

\* The coroutines that can be inside the breaker of one provider at the
\* same time: under asyncio each runs until its next await, and every
\* await of a Redis command is a point where the other one may run.
Callers == {"a", "b"}

\* A coroutine outside the breaker.  kind: "call", "force_open" or
\* "force_reset"; pc: the await it stands at; current_state: the state its
\* handler read; failure_count: the local of _on_failure and
\* _transition_to_open; result: what call() gave its caller.  before,
\* met, aged and wrote record the run: the failures key as its INCR met
\* it, how many runs of the other coroutine were inside the breaker during
\* this run (2: two or more), whether time passed since it began, the state it
\* last wrote, the state call() read when the coroutine entered.
Idle ==
    [ kind |-> "none", pc |-> "idle", raised |-> FALSE,
      current_state |-> "", failure_count |-> -1, result |-> "",
      before |-> -1, met |-> 0, aged |-> FALSE, wrote |-> "",
      admitted |-> "" ]

\* How many times the coroutines enter the breaker in one behaviour.
MaxEnters == 3

\* No get_exchange_rate call is between its awaits.  pc: the line the call
\* stands at; status: each provider's _try_provider coroutine ("idle": not
\* created, "running", "done"); t: what each finished coroutine returned.
NoFanout ==
    [ pc |-> "idle", pair |-> <<>>,
      status |-> [p \in Providers |-> "idle"],
      t |-> [p \in Providers |->
               [seen |-> "none", invoked |-> FALSE, rate |-> 0]] ]

\* Nobody is inside the breaker.  entered: the entries so far;
\* failure_age: time since _on_failure last ran for the provider (-1:
\* never); opened_by: the kind of coroutine whose write last stored OPEN.
NewFlight ==
    [ co |-> [c \in Callers |-> Idle],
      entered |-> 0,
      failure_age |-> -1,
      opened_by |-> "",
      fan |-> NoFanout ]

\* No currency has been populated: the validation cache, the key
\* supported_currencies:top (present or not), the codes of the
\* SupportedCurrency table; answer is the last validate_currencies call.
NewValidator ==
    [ cache |-> [pair \in ValidatedPairs |-> NoVerdict],
      top |-> FALSE,
      supported |-> {},
      answer |-> NoAnswer ]

(***************************************************************************)
(* RateAggregatorService                                                   *)
(***************************************************************************)

\* A rate text that keeps only the digits before the point.
DecimalToStr_whole(r) == [int |-> r \div 100, frac |-> 0]

\* str(result.rate) in _update_cache: the decimal text of a rate, as its
\* digits before and after the point.
DecimalToStr(r) == [int |-> r \div 100, frac |-> r % 100]

\* Decimal(cached_rate["rate"]) in get_exchange_rate: the rate of a text.
StrToDecimal(s) == s.int * 100 + s.frac

\* AggregatedRateResult; timestamp is the age of the time stamp.
Result(pair, rate, confidence_level, sources_used, is_primary_used, cached, timestamp, warnings) ==
    [ kind |-> "rate", pair |-> pair, rate |-> rate,
      confidence_level |-> confidence_level, sources_used |-> sources_used,
      is_primary_used |-> is_primary_used, cached |-> cached,
      timestamp |-> timestamp, warnings |-> warnings ]

\* A cache that never answers.
check_cache_blind(pair) == NoEntry

\* _check_cache / RedisManager.get_latest_rate, and the result built from a
\* hit (lines 95-105): the entry's warnings are not read back.
check_cache(pair) == rates[pair]

CachedResult(pair, e) ==
    Result(pair, StrToDecimal(e.rate), e.confidence_level, e.sources_used,
           e.is_primary_used, TRUE, e.timestamp, <<>>)

\* The fan-out: every provider's call through its own breaker.
Fanout(outs, readable) ==
    [p \in Providers |-> try_provider(cb[p], outs[p], readable)]

\* successful_results (line 234): the successful secondaries, in order.
SuccessfulSecondaries(t) ==
    SelectSeq(SecondaryProviders, LAMBDA n : t[n].seen = "ok")

\* A stale lookup that answers although the query raised.
check_stale_cache_unguarded(pair, db_ok) ==
    IF history[pair].rows # {}
    THEN {[provider |-> r.provider, rate |-> r.rate, age |-> history[pair].age]
            : r \in history[pair].rows}
    ELSE {NoStale}

\* _check_stale_cache: the row with the latest fetched_at among the pair's
\* successful rows (any of them when several share it); nothing when there
\* is none or the query raises.
check_stale_cache(pair, db_ok) ==
    IF db_ok /\ history[pair].rows # {}
    THEN {[provider |-> r.provider, rate |-> r.rate, age |-> history[pair].age]
            : r \in history[pair].rows}
    ELSE {NoStale}

\* A fusion of primary and secondaries that reports the primary as used.
primary_and_secondaries_marked(pair, primary_rate, names, secondary_rates) ==
    LET all_rates == <<primary_rate>> \o secondary_rates
        mean == DecimalDiv(SumSeq(all_rates), Len(all_rates))
        max_deviation == MaxDeviation(all_rates, mean)
        avg_rate == IF primary_rate # 0 /\ max_deviation >= DEVIATION_THRESHOLD
                    THEN primary_rate ELSE mean
    IN  Result(pair, avg_rate, "high", <<primary_provider>> \o names,
               TRUE, FALSE, 0, <<>>)

\* _aggregate_results, scenario 1 with successful secondaries (lines
\* 243-308): the mean of all rates, or the primary's rate when some rate
\* lies a whole unit or more from the mean.
primary_and_secondaries(pair, primary_rate, names, secondary_rates) ==
    LET all_rates == <<primary_rate>> \o secondary_rates
        mean == DecimalDiv(SumSeq(all_rates), Len(all_rates))
        max_deviation == MaxDeviation(all_rates, mean)
        avg_rate == IF primary_rate # 0 /\ max_deviation >= DEVIATION_THRESHOLD
                    THEN primary_rate ELSE mean
    IN  Result(pair, avg_rate, "high", <<primary_provider>> \o names,
               FALSE, FALSE, 0, <<>>)

\* _aggregate_results, scenario 1 without successful secondaries (310-320).
primary_only(pair, primary_rate) ==
    Result(pair, primary_rate, "high", <<primary_provider>>, TRUE, FALSE,
           0, <<>>)

\* Secondaries of which only the first is used.
secondaries_first(pair, names, secondary_rates) ==
    Result(pair, secondary_rates[1], "medium", names, FALSE, FALSE, 0,
           <<"primary_unavailable">>)

\* _aggregate_results, scenario 2 (lines 323-356).
secondaries_only(pair, names, secondary_rates) ==
    LET final_rate == IF Len(secondary_rates) = 1 THEN secondary_rates[1]
                      ELSE DecimalDiv(SumSeq(secondary_rates),
                                      Len(secondary_rates))
    IN  Result(pair, final_rate, "medium", names, FALSE, FALSE, 0,
               <<"primary_unavailable">>)

\* A stale row handed out as a fresh result.
last_resort_fresh(pair, stale) ==
    IF stale # NoStale
    THEN Result(pair, stale.rate, "low", <<stale.provider>>, FALSE, FALSE,
                stale.age, <<"all_providers_unavailable", "stale_age">>)
    ELSE [kind |-> "no_rate"]

\* _aggregate_results, scenario 3 (lines 359-391): the stale row, or the
\* exception "No exchange rate data available".
last_resort(pair, stale) ==
    IF stale # NoStale
    THEN Result(pair, stale.rate, "low", <<stale.provider>>, FALSE, TRUE,
                stale.age, <<"all_providers_unavailable", "stale_age">>)
    ELSE [kind |-> "no_rate"]

\* _aggregate_results.  t: the fan-out; stale: the answer of
\* _check_stale_cache, consulted only when no provider succeeded.
aggregate_results(pair, t, stale) ==
    LET names == SuccessfulSecondaries(t)
        secondary_rates == [i \in 1..Len(names) |-> t[names[i]].rate]
    IN  IF t[primary_provider].seen = "ok"
        THEN IF Len(names) > 0
             THEN primary_and_secondaries(pair, t[primary_provider].rate,
                                          names, secondary_rates)
             ELSE primary_only(pair, t[primary_provider].rate)
        ELSE IF Len(names) > 0
        THEN secondaries_only(pair, names, secondary_rates)
        ELSE last_resort(pair, stale)

\* What a get_exchange_rate call did on the way: whether it read the rates
\* entry, the breakers it called, the providers invoked, what fusion got
\* from each provider, whether it asked the durable store for a stale row.
Trace(cache_read, t, called, stale_read) ==
    [ cache_read |-> cache_read,
      breaker_calls |-> IF called THEN Providers ELSE {},
      invoked |-> IF called THEN {p \in Providers : t[p].invoked} ELSE {},
      seen |-> [p \in Providers |-> IF called THEN t[p].seen ELSE "none"],
      rate |-> [p \in Providers |-> IF called THEN t[p].rate ELSE 0],
      stale_read |-> stale_read ]

\* A rates entry that is never written.
update_cache_never(result) == rates

\* _update_cache with RedisManager.set_latest_rate: a result that is not
\* marked cached is written under its pair with the fresh-rate TTL.
update_cache(result) ==
    IF ~result.cached
    THEN [rates EXCEPT ![result.pair] =
            [ ttl |-> RATE_CACHE_TTL, rate |-> DecimalToStr(result.rate),
              confidence_level |-> result.confidence_level,
              sources_used |-> result.sources_used,
              is_primary_used |-> result.is_primary_used,
              timestamp |-> result.timestamp,
              warnings |-> result.warnings ]]
    ELSE rates

\* _log_results_to_db: one ExchangeRate row per successful Call Result.
\* Only the newest rows of a pair are kept: they are all the stale lookup
\* can return.
log_results_to_db(pair, t, db_ok) ==
    LET rows == {[provider |-> p, rate |-> t[p].rate]
                    : p \in {q \in Providers : t[q].seen = "ok"}}
    IN  IF db_ok /\ rows # {}
        THEN [history EXCEPT ![pair] = [age |-> 0, rows |-> rows]]
        ELSE history

\* get_exchange_rate from step 1 on (lines 82-124): the state it leaves,
\* its response and its trace.
lookup_or_fetch(pair, outs, readable, db_ok, stale) ==
    LET cached_rate == check_cache(pair)
        t == Fanout(outs, readable)
        result == aggregate_results(pair, t, stale)
        none_ok == \A p \in Providers : t[p].seen # "ok"
    IN  IF cached_rate # NoEntry
        THEN [ cb |-> cb, rates |-> rates, history |-> history,
               response |-> CachedResult(pair, cached_rate),
               trace |-> Trace(TRUE, t, FALSE, FALSE) ]
        ELSE IF result.kind = "rate"
        THEN [ cb |-> [p \in Providers |-> t[p].b],
               rates |-> update_cache(result),
               history |-> log_results_to_db(pair, t, db_ok),
               response |-> result,
               trace |-> Trace(TRUE, t, TRUE, none_ok) ]
        ELSE [ cb |-> [p \in Providers |-> t[p].b],
               rates |-> rates, history |-> history, response |-> result,
               trace |-> Trace(TRUE, t, TRUE, none_ok) ]

\* A call that skips validation.
get_exchange_rate_unvalidated(pair, valid, outs, readable, db_ok, stale) ==
    lookup_or_fetch(pair, outs, readable, db_ok, stale)

\* get_exchange_rate (lines 56-124).  valid: the validator's answer.
get_exchange_rate(pair, valid, outs, readable, db_ok, stale) ==
    IF ~valid
    THEN [ cb |-> cb, rates |-> rates, history |-> history,
           response |-> [kind |-> "invalid_currency"],
           trace |-> Trace(FALSE, outs, FALSE, FALSE) ]
    ELSE lookup_or_fetch(pair, outs, readable, db_ok, stale)

(***************************************************************************)
(* Actions                                                                 *)
(***************************************************************************)

Min(x, y) == IF x < y THEN x ELSE y

Init ==
    /\ cb = [p \in Providers |-> NewBreaker]
    /\ rates = [pair \in Pairs |-> NoEntry]
    /\ history = [pair \in Pairs |-> NoHistory]
    /\ response = NoResponse
    /\ probe = NoProbe
    /\ cb_event = NoEvent
    /\ fail_run = 0
    /\ fail_run_fresh = 0
    /\ ho_successes = 0
    /\ calls = 0
    /\ worker = NewWorker
    /\ ws = NewHub
    /\ validator = NewValidator
    /\ flight = NewFlight

\* The provider outcomes a call can meet: none is consulted on a cache hit
\* or an invalid pair.
OutcomesFor(pair, valid) ==
    IF valid /\ rates[pair] = NoEntry
    THEN [Providers -> Outcomes]
    ELSE {[p \in Providers |-> [kind |-> "raise", rate |-> 0]]}

\* The stamp reads a call can meet: one is made only at an OPEN breaker.
ReadsFor(pair, valid) ==
    IF /\ valid
       /\ rates[pair] = NoEntry
       /\ \E p \in Providers : get_circuit_breaker_state(cb[p]) = OPEN
    THEN BOOLEAN ELSE {TRUE}

\* The durable store's answers a call can meet.
StoreFor(pair, valid) ==
    IF valid /\ rates[pair] = NoEntry THEN BOOLEAN ELSE {TRUE}

\* One call of RateAggregatorService.get_exchange_rate, start to return.
GetExchangeRate ==
    /\ response = NoResponse
    /\ calls < MaxCalls
    /\ \E pair \in Pairs, valid \in BOOLEAN :
         \E outs \in OutcomesFor(pair, valid),
            readable \in ReadsFor(pair, valid),
            db_ok \in StoreFor(pair, valid) :
           \E stale \in check_stale_cache(pair, db_ok) :
             \E r \in {get_exchange_rate(pair, valid, outs, readable, db_ok,
                                         stale)} :
                /\ cb' = r.cb
                /\ rates' = r.rates
                /\ history' = r.history
                /\ response' = r.response
                /\ probe' = [ kind |-> "call", pair |-> pair,
                              valid |-> valid, db_ok |-> db_ok,
                              entry_before |-> rates[pair],
                              history_before |-> history[pair],
                              trace |-> r.trace ]
    /\ calls' = calls + 1
    /\ UNCHANGED <<cb_event, fail_run, fail_run_fresh, ho_successes, worker, ws, validator,
                   flight>>

\* The caller takes the response.
Respond ==
    /\ response # NoResponse
    /\ response' = NoResponse
    /\ probe' = NoProbe
    /\ UNCHANGED <<cb, rates, history, cb_event, fail_run, fail_run_fresh,
                   ho_successes, calls, worker, ws, validator,
                   flight>>

\* The breaker that is called directly.
direct == primary_provider

FailRunCap == failure_threshold + 1

\* One direct CircuitBreaker.call, start to return.
Call(raised, readable) ==
    LET b == cb[direct]
        a == Admission(b, readable)
        c == BreakerCall(b, raised, readable)
        in_closed == ~a.rejected /\ get_circuit_breaker_state(a.b) = CLOSED
        in_half == ~a.rejected /\ get_circuit_breaker_state(a.b) = HALF_OPEN
        run == IF in_closed /\ raised
               THEN Min(fail_run + 1, FailRunCap) ELSE 0
        run_fresh == IF in_closed /\ raised
                     THEN Min(fail_run_fresh + 1, FailRunCap) ELSE 0
        ho == IF in_half /\ ~raised
              THEN (IF get_circuit_breaker_state(b) = HALF_OPEN
                    THEN ho_successes ELSE 0) + 1
              ELSE 0
    IN  /\ cb' = [cb EXCEPT ![direct] = c.b]
        /\ cb_event' = [ kind |-> "call", before |-> b, admitted |-> a.b,
                         after |-> c.b, raised |-> raised,
                         readable |-> readable, result |-> c.result,
                         fail_run |-> run, fail_run_fresh |-> run_fresh,
                         ho_successes |-> ho ]
        /\ fail_run' = run
        /\ fail_run_fresh' = run_fresh
        /\ ho_successes' =
              IF get_circuit_breaker_state(c.b) = HALF_OPEN THEN ho ELSE 0
        /\ UNCHANGED <<rates, history, response, probe, calls, worker, ws, validator,
                   flight>>

\* CircuitBreaker.force_reset
ForceReset(p) ==
    /\ cb' = [cb EXCEPT ![p] = transition_to_closed(cb[p])]
    /\ IF p = direct
       THEN /\ cb_event' = [kind |-> "force_reset"]
            /\ fail_run' = 0
            /\ fail_run_fresh' = 0
            /\ ho_successes' = 0
       ELSE UNCHANGED <<cb_event, fail_run, fail_run_fresh, ho_successes>>
    /\ UNCHANGED <<rates, history, response, probe, calls, worker, ws, validator,
                   flight>>

\* CircuitBreaker.force_open
ForceOpen(p) ==
    /\ cb' = [cb EXCEPT ![p] = transition_to_open(cb[p])]
    /\ IF p = direct
       THEN /\ cb_event' = [kind |-> "force_open"]
            /\ fail_run' = 0
            /\ fail_run_fresh' = 0
            /\ ho_successes' = 0
       ELSE UNCHANGED <<cb_event, fail_run, fail_run_fresh, ho_successes>>
    /\ UNCHANGED <<rates, history, response, probe, calls, worker, ws, validator,
                   flight>>

\* One tick on a rates entry: the TTL runs down, the time stamp ages.
TickEntry(e) ==
    IF e.ttl <= 1 THEN NoEntry
    ELSE [e EXCEPT !.ttl = @ - 1, !.timestamp = @ + 1]

\* One unit of time passes, between calls.
Tick ==
    LET b == cb[direct]
        after == TickBreaker(b)
        reads_closed_anew ==
            /\ get_circuit_breaker_state(b) # CLOSED
            /\ get_circuit_breaker_state(after) = CLOSED
    IN  /\ response = NoResponse
        /\ cb' = [p \in Providers |-> TickBreaker(cb[p])]
        /\ rates' = [pair \in Pairs |-> TickEntry(rates[pair])]
        /\ history' = [pair \in Pairs |->
                         IF history[pair].rows = {} THEN history[pair]
                         ELSE [history[pair] EXCEPT
                                 !.age = Min(@ + 1, MaxAge)]]
        /\ fail_run' = IF reads_closed_anew THEN 0 ELSE fail_run
        /\ fail_run_fresh' =
              IF reads_closed_anew \/ (b.failures # -1 /\ after.failures = -1)
              THEN 0 ELSE fail_run_fresh
        /\ ho_successes' =
              IF get_circuit_breaker_state(after) = HALF_OPEN
              THEN ho_successes ELSE 0
        /\ UNCHANGED <<response, probe, cb_event, calls, worker, ws, validator,
                   flight>>

\* CB_RECOVERY_TIMEOUT set above the lifetime of the breaker keys (the
\* constructor's own default, 3600 s, equals it).
long_recovery_timeout == CIRCUIT_BREAKER_TTL + 1

\* A cooldown test that keeps to the timeout the factory ships with.
should_attempt_reset_after_default(b, readable, timeout) ==
    IF ~readable THEN TRUE
    ELSE IF b.last_failure = -1 THEN TRUE
    ELSE b.last_failure >= recovery_timeout

\* CircuitBreaker._should_attempt_reset of a breaker constructed with the
\* given recovery_timeout.
should_attempt_reset_after(b, readable, timeout) ==
    IF ~readable THEN TRUE
    ELSE IF b.last_failure = -1 THEN TRUE
    ELSE b.last_failure >= timeout

\* CircuitBreaker.call of that breaker, up to the invocation.
AdmissionAfter(b, readable, timeout) ==
    IF get_circuit_breaker_state(b) = OPEN
    THEN IF should_attempt_reset_after(b, readable, timeout)
         THEN [rejected |-> FALSE, b |-> transition_to_half_open(b)]
         ELSE [rejected |-> TRUE, b |-> b]
    ELSE [rejected |-> FALSE, b |-> b]

\* One CircuitBreaker.call of a breaker whose recovery_timeout is
\* long_recovery_timeout, start to return.
LongCall(raised, readable) ==
    LET b == cb[direct]
        a == AdmissionAfter(b, readable, long_recovery_timeout)
        after == IF a.rejected THEN a.b
                 ELSE IF raised THEN on_failure(a.b)
                 ELSE on_success(a.b)
    IN  /\ cb' = [cb EXCEPT ![direct] = after]
        /\ cb_event' = [ kind |-> "call", before |-> b, admitted |-> a.b,
                         after |-> after, raised |-> raised,
                         readable |-> readable,
                         result |-> IF a.rejected THEN "blocked"
                                    ELSE IF raised THEN "raised"
                                    ELSE "returned" ]
        /\ UNCHANGED <<rates, history, response, probe, fail_run,
                       fail_run_fresh, ho_successes, calls, worker, ws,
                       validator, flight>>

\* The breaker with the long cooldown, called directly.
NextLong ==
    \/ \E raised \in BOOLEAN, readable \in BOOLEAN : LongCall(raised, readable)
    \/ Tick

SpecLong == Init /\ [][NextLong]_vars

\* One _try_provider call for the primary, start to return.
TryProvider(outcome, readable) ==
    LET r == try_provider(cb[direct], outcome, readable)
    IN  /\ cb' = [cb EXCEPT ![direct] = r.b]
        /\ cb_event' = [ kind |-> "try", before |-> cb[direct],
                         after |-> r.b, outcome |-> outcome.kind,
                         readable |-> readable, seen |-> r.seen ]
        /\ UNCHANGED <<rates, history, response, probe, fail_run,
                       fail_run_fresh, ho_successes, calls, worker, ws,
                       validator, flight>>

\* One provider behind its breaker.
NextProvider ==
    \/ \E outcome \in Outcomes, readable \in BOOLEAN :
         TryProvider(outcome, readable)
    \/ Tick

SpecProvider == Init /\ [][NextProvider]_vars

\* The breaker alone, called directly.
NextCB ==
    \/ \E raised \in BOOLEAN, readable \in BOOLEAN : Call(raised, readable)
    \/ ForceReset(direct)
    \/ ForceOpen(direct)
    \/ Tick

SpecCB == Init /\ [][NextCB]_vars

\* The aggregator over the three providers and their breakers.
Next ==
    \/ GetExchangeRate
    \/ Respond
    \/ Tick

Spec == Init /\ [][Next]_vars

(***************************************************************************)
(* Fusion alone: _aggregate_results applied to every combination of what   *)
(* the providers can hand it.  A payload is taken as it comes: the parsers *)
(* accept any number as the rate of a successful response, zero included.  *)
(***************************************************************************)

\* _parse_rate_response: rate = Decimal(str(rates[target])), unchecked.
PayloadRates == Rates \cup {0}

PayloadOutcomes ==
    {[kind |-> "raise", rate |-> 0], [kind |-> "payload", rate |-> 0]}
    \cup {[kind |-> "ok", rate |-> r] : r \in PayloadRates}

\* A breaker as constructed, and one just opened.
BreakerStates == {NewBreaker, transition_to_open(NewBreaker)}

\* The answers of _check_stale_cache: none, or a logged row.
StaleAnswers ==
    {NoStale} \cup {[provider |-> p, rate |-> r, age |-> MaxAge]
                       : p \in Providers, r \in PayloadRates}

\* _try_provider for every provider, then _aggregate_results.
Fuse ==
    /\ response = NoResponse
    /\ \E pair \in Pairs, outs \in [Providers -> PayloadOutcomes],
          breakers \in [Providers -> BreakerStates], stale \in StaleAnswers :
         LET t == [p \in Providers |->
                      try_provider(breakers[p], outs[p], TRUE)]
             none_ok == \A p \in Providers : t[p].seen # "ok"
         IN  /\ response' = aggregate_results(pair, t, stale)
             /\ probe' = [ kind |-> "fusion", pair |-> pair,
                           outs |-> outs, breakers |-> breakers,
                           after |-> [p \in Providers |-> t[p].b],
                           stale |-> stale,
                           trace |-> Trace(FALSE, t, TRUE, none_ok) ]
    /\ UNCHANGED <<cb, rates, history, cb_event, fail_run, fail_run_fresh,
                   ho_successes, calls, worker, ws, validator,
                   flight>>

NextFusion ==
    \/ Fuse
    \/ Respond

SpecFusion == Init /\ [][NextFusion]_vars

(***************************************************************************)
(* The batch path: get_all_rates_for_base fuses every target with          *)
(* _aggregate_single_pair (rate_aggregator.py lines 525-623).  For one     *)
(* target it is handed the primary's response for the target, or None,     *)
(* and the responses of the secondaries that have one; both paths are      *)
(* applied here to the same per-provider answers.                          *)
(***************************************************************************)

\* _aggregate_single_pair.  t: what each provider answered for the target;
\* stale: the answer of _check_stale_cache.
aggregate_single_pair(pair, t, stale) ==
    LET names == SuccessfulSecondaries(t)
        secondary_rates == [i \in 1..Len(names) |-> t[names[i]].rate]
        primary_rate == t[primary_provider].rate
        all_rates == <<primary_rate>> \o secondary_rates
        mean == DecimalDiv(SumSeq(all_rates), Len(all_rates))
        high == MaxDeviation(all_rates, mean) >= DEVIATION_THRESHOLD
        final_rate == IF Len(secondary_rates) > 1
                      THEN DecimalDiv(SumSeq(secondary_rates),
                                      Len(secondary_rates))
                      ELSE secondary_rates[1]
    IN  IF t[primary_provider].seen = "ok"
        THEN IF Len(names) > 0
             THEN Result(pair, IF high THEN primary_rate ELSE mean, "high",
                         IF high THEN <<primary_provider>>
                         ELSE <<primary_provider>> \o names,
                         TRUE, FALSE, 0, <<>>)
             ELSE Result(pair, primary_rate, "high", <<primary_provider>>,
                         TRUE, FALSE, 0, <<>>)
        ELSE IF Len(names) > 0
        THEN Result(pair, final_rate, "medium", names, FALSE, FALSE, 0,
                    <<"primary_unavailable">>)
        ELSE IF stale # NoStale
        THEN Result(pair, stale.rate, "low", <<stale.provider>>, FALSE, TRUE,
                    stale.age, <<"all_providers_unavailable", "stale_age">>)
        ELSE [kind |-> "no_rate"]

\* One target of get_all_rates_for_base, and what _aggregate_results
\* makes of the same answers.
FuseBoth ==
    /\ response = NoResponse
    /\ \E pair \in Pairs, outs \in [Providers -> PayloadOutcomes],
          stale \in StaleAnswers :
         LET t == [p \in Providers |->
                      [seen |-> outs[p].kind, rate |-> outs[p].rate]]
         IN  /\ response' = aggregate_single_pair(pair, t, stale)
             /\ probe' = [ kind |-> "batch", pair |-> pair, outs |-> outs,
                           stale |-> stale,
                           single |-> aggregate_results(pair, t, stale) ]
    /\ UNCHANGED <<cb, rates, history, cb_event, fail_run, fail_run_fresh,
                   ho_successes, calls, worker, ws, validator,
                   flight>>

NextPaths ==
    \/ FuseBoth
    \/ Respond

SpecPaths == Init /\ [][NextPaths]_vars

(***************************************************************************)
(* RateIngestorWorker (app/workers/rate_ingestor.py).  The bases of a     *)
(* cycle run concurrently, each over the targets in order; one step is    *)
(* one pass of a base's loop: the aggregator call, the cache write, the   *)
(* publish.  Time passes in the sleep between two cycles.                  *)
(***************************************************************************)

\* What one get_exchange_rate call of the worker can meet: healthy
\* providers, providers that are all down, currencies that are not valid.
WorkerInputs ==
    { [valid |-> TRUE,
       outs |-> [p \in Providers |-> [kind |-> "ok", rate |-> 100]]],
      [valid |-> TRUE,
       outs |-> [p \in Providers |-> [kind |-> "raise", rate |-> 0]]],
      [valid |-> FALSE,
       outs |-> [p \in Providers |-> [kind |-> "raise", rate |-> 0]]] }

Healthy(in) == in.valid /\ \A p \in Providers : in.outs[p].kind = "ok"

\* A write that leaves the time to live of an existing entry as it is.
set_latest_rate_keepttl(rs, result) ==
    [rs EXCEPT ![result.pair] =
        [ ttl |-> IF @ = NoEntry THEN RATE_CACHE_TTL ELSE @.ttl,
          rate |-> DecimalToStr(result.rate),
          confidence_level |-> result.confidence_level,
          sources_used |-> result.sources_used,
          is_primary_used |-> result.is_primary_used,
          timestamp |-> result.timestamp,
          warnings |-> result.warnings ]]

\* A write that skips the results marked cached.
set_latest_rate_uncached(rs, result) ==
    IF result.cached THEN rs
    ELSE [rs EXCEPT ![result.pair] =
            [ ttl |-> RATE_CACHE_TTL, rate |-> DecimalToStr(result.rate),
              confidence_level |-> result.confidence_level,
              sources_used |-> result.sources_used,
              is_primary_used |-> result.is_primary_used,
              timestamp |-> result.timestamp,
              warnings |-> result.warnings ]]

\* RedisManager.set_latest_rate with the rate_data the worker builds from
\* a result (lines 57-67), cached or not: the entry is written anew with
\* the fresh-rate TTL.
set_latest_rate(rs, result) ==
    [rs EXCEPT ![result.pair] =
        [ ttl |-> RATE_CACHE_TTL, rate |-> DecimalToStr(result.rate),
          confidence_level |-> result.confidence_level,
          sources_used |-> result.sources_used,
          is_primary_used |-> result.is_primary_used,
          timestamp |-> result.timestamp,
          warnings |-> result.warnings ]]

\* A publish that reaches no channel.
publish_rate_update_lost(published, pair) == published

\* RedisManager.publish_rate_update: one message on rates:broadcast.
publish_rate_update(published, pair) == [published EXCEPT ![pair] = @ + 1]

\* A loop that gives up its base at the first pair that fails.
fetch_and_publish_for_base_abort(w, i, r) ==
    LET pair == <<base_currencies[i], target_currencies[w.next[i]]>>
    IN  IF r.response.kind = "rate"
        THEN [ rates |-> set_latest_rate(r.rates, r.response),
               worker |-> [w EXCEPT !.next[i] = @ + 1,
                                    !.results[pair] = "ok",
                                    !.published = publish_rate_update(@, pair),
                                    !.wrote[pair] = TRUE,
                                    !.sent[pair] = TRUE] ]
        ELSE [ rates |-> r.rates,
               worker |-> [w EXCEPT !.next[i] = Len(target_currencies) + 1,
                                    !.results[pair] = "fail"] ]

\* One pass of the loop of fetch_and_publish_for_base (lines 52-83) for
\* base i, on what get_exchange_rate returned or raised: r.
fetch_and_publish_for_base(w, i, r) ==
    LET pair == <<base_currencies[i], target_currencies[w.next[i]]>>
    IN  IF r.response.kind = "rate"
        THEN [ rates |-> set_latest_rate(r.rates, r.response),
               worker |-> [w EXCEPT !.next[i] = @ + 1,
                                    !.results[pair] = "ok",
                                    !.published = publish_rate_update(@, pair),
                                    !.wrote[pair] = TRUE,
                                    !.sent[pair] = TRUE] ]
        ELSE [ rates |-> r.rates,
               worker |-> [w EXCEPT !.next[i] = @ + 1,
                                    !.results[pair] = "fail",
                                    !.wrote[pair] =
                                        @ \/ r.rates[pair] # rates[pair]] ]

\* A stop() that leaves the flag alone.
stop_ignored(w) == [w EXCEPT !.stopped_in = w.pc]

\* RateIngestorWorker.stop (lines 176-179).
stop(w) == [w EXCEPT !.is_running = FALSE, !.stopped_in = w.pc]

\* n ticks on the Redis keys and the durable rows.
RECURSIVE ElapseBreakers(_, _)
ElapseBreakers(c, n) ==
    IF n = 0 THEN c
    ELSE ElapseBreakers([p \in Providers |-> TickBreaker(c[p])], n - 1)

RECURSIVE ElapseRates(_, _)
ElapseRates(rs, n) ==
    IF n = 0 THEN rs
    ELSE ElapseRates([pair \in DOMAIN rs |-> TickEntry(rs[pair])], n - 1)

ElapseHistory(h, n) ==
    [pair \in DOMAIN h |->
        IF h[pair].rows = {} THEN h[pair]
        ELSE [h[pair] EXCEPT !.age = Min(@ + n, MaxAge)]]

\* The state the worker process starts in.
InitIngestor ==
    /\ cb = [p \in Providers |-> NewBreaker]
    /\ rates = [pair \in WorkerPairs |-> NoEntry]
    /\ history = [pair \in WorkerPairs |-> NoHistory]
    /\ response = NoResponse
    /\ probe = NoProbe
    /\ cb_event = NoEvent
    /\ fail_run = 0
    /\ fail_run_fresh = 0
    /\ ho_successes = 0
    /\ calls = 0
    /\ worker = NewWorker
    /\ ws = NewHub
    /\ validator = NewValidator
    /\ flight = NewFlight

\* run() up to its loop (lines 133-144).
Run ==
    /\ worker.pc = "start"
    /\ worker' = [worker EXCEPT !.is_running = TRUE, !.pc = "check"]
    /\ UNCHANGED <<cb, rates, history, response, probe, cb_event, fail_run,
                   fail_run_fresh, ho_successes, calls, ws, validator,
                   flight>>

\* The loop's test passes and update_cycle starts every base (lines
\* 146-152, 97-101).
StartCycle ==
    /\ worker.pc = "check"
    /\ worker.is_running
    /\ worker.cycle_count < MaxCycles
    /\ worker' = [worker EXCEPT
                    !.pc = "cycle", !.cycle_count = @ + 1,
                    !.next = [i \in DOMAIN base_currencies |-> 1],
                    !.results = [pair \in WorkerPairs |-> "none"],
                    !.wrote = [pair \in WorkerPairs |-> FALSE],
                    !.sent = [pair \in WorkerPairs |-> FALSE],
                    !.contacted = [pair \in WorkerPairs |-> {}]]
    /\ UNCHANGED <<cb, rates, history, response, probe, cb_event, fail_run,
                   fail_run_fresh, ho_successes, calls, ws, validator,
                   flight>>

\* One base handles its next target.
FetchAndPublish ==
    /\ worker.pc = "cycle"
    /\ \E i \in DOMAIN base_currencies, in \in WorkerInputs :
         /\ worker.next[i] <= Len(target_currencies)
         /\ LET pair == <<base_currencies[i],
                          target_currencies[worker.next[i]]>>
            IN  \E stale \in check_stale_cache(pair, TRUE) :
                  \E r \in {get_exchange_rate(pair, in.valid, in.outs, TRUE,
                                              TRUE, stale)} :
                    \E s \in {fetch_and_publish_for_base(worker, i, r)} :
                       /\ cb' = r.cb
                       /\ history' = r.history
                       /\ rates' = s.rates
                       /\ worker' = [s.worker EXCEPT
                                        !.healthy = @ /\ Healthy(in),
                                        !.contacted[pair] =
                                            r.trace.breaker_calls]
    /\ UNCHANGED <<response, probe, cb_event, fail_run, fail_run_fresh,
                   ho_successes, calls, ws, validator,
                   flight>>

\* Every base is through: update_cycle returns and run() goes to sleep
\* (lines 103-127, 155-156).
UpdateCycleDone ==
    /\ worker.pc = "cycle"
    /\ \A i \in DOMAIN base_currencies :
          worker.next[i] > Len(target_currencies)
    /\ worker' = [worker EXCEPT !.pc = "sleep"]
    /\ UNCHANGED <<cb, rates, history, response, probe, cb_event, fail_run,
                   fail_run_fresh, ho_successes, calls, ws, validator,
                   flight>>

\* asyncio.sleep(update_interval) returns (line 156).
Sleep ==
    /\ worker.pc = "sleep"
    /\ worker' = [worker EXCEPT !.pc = "check"]
    /\ cb' = ElapseBreakers(cb, update_interval)
    /\ rates' = ElapseRates(rates, update_interval)
    /\ history' = ElapseHistory(history, update_interval)
    /\ UNCHANGED <<response, probe, cb_event, fail_run, fail_run_fresh,
                   ho_successes, calls, ws, validator,
                   flight>>

\* The loop's test fails and run() returns (lines 146, 174).
ExitLoop ==
    /\ worker.pc = "check"
    /\ ~worker.is_running
    /\ worker' = [worker EXCEPT !.pc = "exited"]
    /\ UNCHANGED <<cb, rates, history, response, probe, cb_event, fail_run,
                   fail_run_fresh, ho_successes, calls, ws, validator,
                   flight>>

\* SIGINT or SIGTERM arrives and the handler calls stop() (lines 214-219):
\* once in a behaviour, wherever run() is.
Stop ==
    /\ worker.stopped_in = ""
    /\ worker.pc # "exited"
    /\ worker' = stop(worker)
    /\ UNCHANGED <<cb, rates, history, response, probe, cb_event, fail_run,
                   fail_run_fresh, ho_successes, calls, ws, validator,
                   flight>>

WorkerStep ==
    \/ Run
    \/ StartCycle
    \/ FetchAndPublish
    \/ UpdateCycleDone
    \/ Sleep
    \/ ExitLoop

NextIngestor ==
    \/ WorkerStep
    \/ Stop

SpecIngestor == InitIngestor /\ [][NextIngestor]_vars

\* run() is a coroutine of the event loop: it is scheduled as long as it
\* can take a step.
SpecIngestorLive == SpecIngestor /\ WF_vars(WorkerStep)

(***************************************************************************)
(* The ingestor and the API on the same cache, for one pair: passes of     *)
(* the worker's loop body (rate_ingestor.py lines 53-74) and requests of   *)
(* the API, each start to return, with time passing in between.            *)
(***************************************************************************)

\* One pass of the worker's loop for the pair: get_exchange_rate, then
\* set_latest_rate with what it returned.
Ingest ==
    /\ response = NoResponse
    /\ calls < MaxCalls
    /\ \E pair \in Pairs, in \in WorkerInputs :
         \E stale \in check_stale_cache(pair, TRUE) :
           \E r \in {get_exchange_rate(pair, in.valid, in.outs, TRUE, TRUE,
                                       stale)} :
              /\ cb' = r.cb
              /\ history' = r.history
              /\ rates' = IF r.response.kind = "rate"
                          THEN set_latest_rate(r.rates, r.response)
                          ELSE r.rates
              /\ probe' = [ kind |-> "pass", pair |-> pair,
                            valid |-> in.valid, db_ok |-> TRUE,
                            entry_before |-> rates[pair],
                            history_before |-> history[pair],
                            trace |-> r.trace, result |-> r.response ]
    /\ calls' = calls + 1
    /\ UNCHANGED <<response, cb_event, fail_run, fail_run_fresh,
                   ho_successes, worker, ws, validator, flight>>

\* One get_exchange_rate call of an API request, start to return.
Ask ==
    /\ response = NoResponse
    /\ calls < MaxCalls
    /\ \E pair \in Pairs, in \in WorkerInputs :
         \E stale \in check_stale_cache(pair, TRUE) :
           \E r \in {get_exchange_rate(pair, in.valid, in.outs, TRUE, TRUE,
                                       stale)} :
              /\ cb' = r.cb
              /\ rates' = r.rates
              /\ history' = r.history
              /\ response' = r.response
              /\ probe' = [ kind |-> "call", pair |-> pair,
                            valid |-> in.valid, db_ok |-> TRUE,
                            entry_before |-> rates[pair],
                            history_before |-> history[pair],
                            trace |-> r.trace, result |-> r.response ]
    /\ calls' = calls + 1
    /\ UNCHANGED <<cb_event, fail_run, fail_run_fresh, ho_successes, worker,
                   ws, validator, flight>>

NextServing ==
    \/ Ingest
    \/ Ask
    \/ Respond
    \/ Tick

SpecServing == Init /\ [][NextServing]_vars

(***************************************************************************)
(* WebSocket side (app/api/routes/websockets.py).  Every connected client *)
(* has its own websocket_rates_endpoint call with its own subscription to *)
(* rates:broadcast; ConnectionManager keeps the registry of the sockets   *)
(* and their filters.  A send_json that raises is an input.                *)
(***************************************************************************)

\* The "pair" field of a published message: f"{base}/{target}".
PairStr(pair) == pair[1] \o "/" \o pair[2]

\* The values of the pairs query parameter clients connect with, split at
\* the commas: none, one pair, two pairs the first after a blank, one pair
\* in lower case.
Queries == {<<>>, <<"USD/NGN">>, <<" USD/NGN", "EUR/USD">>, <<"usd/ngn">>}

\* str.strip on the tokens above.
strip(t) == IF t = " USD/NGN" THEN "USD/NGN" ELSE t

\* The subscription filter parsed from the query (lines 129-133).
parse_pairs(q) == {strip(q[i]) : i \in DOMAIN q}

\* ConnectionManager.connect and disconnect on the registry.
connect(reg, c, currency_pairs) ==
    [x \in DOMAIN reg \cup {c} |-> IF x = c THEN currency_pairs ELSE reg[x]]

disconnect(reg, c) == [x \in DOMAIN reg \ {c} |-> reg[x]]

\* A filter that lets every pair through.
passes_filter_any(subscribed_pairs, pair) == TRUE

\* The endpoint's filter (lines 155-157): a message is skipped when the
\* set is not empty and the pair is not in it.
passes_filter(subscribed_pairs, pair) ==
    ~(subscribed_pairs # {} /\ pair \notin subscribed_pairs)

\* The sockets ConnectionManager.broadcast sends a message to (lines
\* 74-76).
broadcast_targets(reg, pair) ==
    {c \in DOMAIN reg : ~(reg[c] # {} /\ pair \notin reg[c])}

\* The payloads that arrive on rates:broadcast: the ingestor's messages
\* and one that is not JSON.
Payloads ==
    {[json |-> TRUE, pair |-> PairStr(pair)] : pair \in WorkerPairs}
        \cup {[json |-> FALSE, pair |-> ""]}

\* The finally clause of subscribe_to_rates (lines 533-535): unsubscribe,
\* then close; an unsubscribe that raises leaves the clause before close.
release(unsubscribe_ok) == IF unsubscribe_ok THEN "closed" ELSE "leaked"

\* A client connects: the handler parses the filter, registers the socket
\* and sends the welcome message, then subscribes; if the send raises, the
\* handler ends (lines 129-151, 177-187).
Connect ==
    /\ \E c \in Clients, q \in Queries, welcome_ok \in BOOLEAN :
         /\ ws.handler[c].pc = "none"
         /\ LET subscribed_pairs == parse_pairs(q)
                reg == connect(ws.active_connections, c, subscribed_pairs)
            IN  ws' = IF welcome_ok
                      THEN [ws EXCEPT
                              !.active_connections = reg,
                              !.handler[c].pc = "listening",
                              !.handler[c].subscribed_pairs = subscribed_pairs,
                              !.handler[c].pubsub = "subscribed"]
                      ELSE [ws EXCEPT
                              !.active_connections = disconnect(reg, c),
                              !.handler[c].pc = "closed",
                              !.handler[c].subscribed_pairs = subscribed_pairs,
                              !.handler[c].send_failed = TRUE]
    /\ UNCHANGED <<cb, rates, history, response, probe, cb_event, fail_run,
                   fail_run_fresh, ho_successes, calls, worker, validator,
                   flight>>

\* The client closes its end of the socket.  The handler awaits nothing
\* of the socket but its sends: no code runs.
ClientDisconnect ==
    /\ \E c \in Clients :
         /\ ws.handler[c].pc = "listening"
         /\ ws.handler[c].peer = "open"
         /\ ws' = [ws EXCEPT !.handler[c].peer = "gone"]
    /\ UNCHANGED <<cb, rates, history, response, probe, cb_event, fail_run,
                   fail_run_fresh, ho_successes, calls, worker, validator,
                   flight>>

\* A payload arrives on rates:broadcast: every subscription that is open
\* receives it.
PublishMsg ==
    /\ ws.messages < MaxMessages
    /\ \E m \in Payloads :
         ws' = [ws EXCEPT
                  !.messages = @ + 1,
                  !.handler = [c \in Clients |->
                                 IF ws.handler[c].pubsub = "subscribed"
                                 THEN [ws.handler[c] EXCEPT
                                         !.queue = Append(@, m)]
                                 ELSE ws.handler[c]]]
    /\ UNCHANGED <<cb, rates, history, response, probe, cb_event, fail_run,
                   fail_run_fresh, ho_successes, calls, worker, validator,
                   flight>>

\* One pass of subscribe_to_rates and of the handler's loop on it
\* (redis_manager.py 512-525, websockets.py 151-175): a payload that is not
\* JSON is dropped; a message is skipped or sent; a send that raises, as
\* every send to a client that has gone does, ends the handler and leaves
\* the iterator to its disposal.
Forward ==
    /\ \E c \in Clients, send_ok \in BOOLEAN :
         /\ ws.handler[c].pc = "listening"
         /\ ws.handler[c].queue # <<>>
         /\ ws.handler[c].peer = "gone" => ~send_ok
         /\ LET h == ws.handler[c]
                m == Head(h.queue)
                sent == passes_filter(h.subscribed_pairs, m.pair)
            IN  ws' = IF ~m.json
                      THEN [ws EXCEPT
                              !.handler[c].queue = Tail(@),
                              !.handler[c].dropped = TRUE]
                      ELSE IF sent /\ ~send_ok
                      THEN [ws EXCEPT
                              !.seen[c] = @ \cup {m.pair},
                              !.got[c] = @ \cup {m.pair},
                              !.active_connections = disconnect(@, c),
                              !.handler[c].pc = "closed",
                              !.handler[c].pubsub = "closing",
                              !.handler[c].queue = <<>>,
                              !.handler[c].send_failed = TRUE,
                              !.handler[c].after_gone = @ \/ h.peer = "gone",
                              !.handler[c].yielded_after_drop = @ \/ h.dropped]
                      ELSE [ws EXCEPT
                              !.seen[c] = @ \cup {m.pair},
                              !.got[c] = IF sent THEN @ \cup {m.pair} ELSE @,
                              !.handler[c].queue = Tail(@),
                              !.handler[c].after_gone = @ \/ h.peer = "gone",
                              !.handler[c].yielded_after_drop = @ \/ h.dropped]
    /\ UNCHANGED <<cb, rates, history, response, probe, cb_event, fail_run,
                   fail_run_fresh, ho_successes, calls, worker, validator,
                   flight>>

\* The channel is torn down under a handler: listen() raises, the iterator
\* logs it and runs its finally clause (redis_manager.py 526-535); the
\* handler's loop ends, by the end of the iterator or by the exception of
\* its unsubscribe, and the handler deregisters the socket (websockets.py
\* 177-187).
ChannelClosed ==
    /\ \E c \in Clients, unsubscribe_ok \in BOOLEAN :
         /\ ws.handler[c].pc = "listening"
         /\ ws' = [ws EXCEPT
                     !.active_connections = disconnect(@, c),
                     !.handler[c].pc = "closed",
                     !.handler[c].pubsub = release(unsubscribe_ok),
                     !.handler[c].queue = <<>>,
                     !.handler[c].raised =
                         IF unsubscribe_ok THEN @ ELSE "consumer"]
    /\ UNCHANGED <<cb, rates, history, response, probe, cb_event, fail_run,
                   fail_run_fresh, ho_successes, calls, worker, validator,
                   flight>>

\* The event loop disposes of an iterator its handler has abandoned:
\* aclose() runs the finally clause (redis_manager.py 533-535).
Finalize ==
    /\ \E c \in Clients, unsubscribe_ok \in BOOLEAN :
         /\ ws.handler[c].pubsub = "closing"
         /\ ws' = [ws EXCEPT
                     !.handler[c].pubsub = release(unsubscribe_ok),
                     !.handler[c].raised =
                         IF unsubscribe_ok THEN @ ELSE "finalizer"]
    /\ UNCHANGED <<cb, rates, history, response, probe, cb_event, fail_run,
                   fail_run_fresh, ho_successes, calls, worker, validator,
                   flight>>

\* ConnectionManager.broadcast (lines 61-90): the message goes to every
\* registered socket whose filter lets it through; the sockets whose send
\* raises are taken off the registry.
Broadcast ==
    /\ ws.messages < MaxMessages
    /\ \E pair \in WorkerPairs :
         LET reg == ws.active_connections
             targets == broadcast_targets(reg, PairStr(pair))
             gone == {c \in targets : ws.handler[c].peer = "gone"}
         IN  \E failed_connections \in SUBSET targets :
               /\ gone \subseteq failed_connections
               /\ ws' = [ws EXCEPT
                        !.messages = @ + 1,
                        !.seen = [c \in Clients |->
                                    IF c \in DOMAIN reg
                                    THEN @[c] \cup {PairStr(pair)} ELSE @[c]],
                        !.got = [c \in Clients |->
                                    IF c \in targets
                                    THEN @[c] \cup {PairStr(pair)} ELSE @[c]],
                        !.active_connections =
                            [x \in DOMAIN reg \ failed_connections |-> reg[x]]]
    /\ UNCHANGED <<cb, rates, history, response, probe, cb_event, fail_run,
                   fail_run_fresh, ho_successes, calls, worker, validator,
                   flight>>

NextWS ==
    \/ Connect
    \/ ClientDisconnect
    \/ PublishMsg
    \/ Forward
    \/ ChannelClosed
    \/ Finalize
    \/ Broadcast

SpecWS == Init /\ [][NextWS]_vars

(***************************************************************************)
(* ConnectionManager.broadcast await by await (websockets.py 61-90).  The  *)
(* loop iterates self.active_connections.items() itself, not a copy, and   *)
(* awaits send_json inside: while it is suspended the handlers of other    *)
(* sockets register and deregister.  A dictionary iterator raises          *)
(* RuntimeError at its next step when the dictionary's size differs from   *)
(* the size it was created with, and when it finds an entry after it has   *)
(* yielded as many as the dictionary had.                                  *)
(***************************************************************************)

\* The next step of the dictionary iterator of line 74: the exception, the
\* keys it may yield next, or the end.
dict_next(reg, bc) ==
    IF Cardinality(DOMAIN reg) # bc.used
    THEN [kind |-> "raise", from |-> {}]
    ELSE IF DOMAIN reg \ bc.visited = {}
    THEN [kind |-> "stop", from |-> {}]
    ELSE IF Cardinality(bc.visited) >= bc.used
    THEN [kind |-> "raise", from |-> {}]
    ELSE [kind |-> "item", from |-> DOMAIN reg \ bc.visited]

\* broadcast is called with a message of the pair: lines 68-74, up to the
\* creation of the iterator.
BroadcastStart ==
    /\ ws.bc.pc \in {"idle", "done", "raised"}
    /\ ws.messages < MaxMessages
    /\ \E pair \in WorkerPairs :
         ws' = [ws EXCEPT
                  !.messages = @ + 1,
                  !.bc = [NoBroadcast EXCEPT
                            !.pc = "next",
                            !.pair = PairStr(pair),
                            !.targets = broadcast_targets(
                                            ws.active_connections,
                                            PairStr(pair)),
                            !.used = Cardinality(
                                         DOMAIN ws.active_connections)]]
    /\ UNCHANGED <<cb, rates, history, response, probe, cb_event, fail_run,
                   fail_run_fresh, ho_successes, calls, worker, validator,
                   flight>>

\* One step of the for loop (lines 74-79): the iterator raises and the
\* exception leaves broadcast; or it yields a socket, which is skipped or
\* sent to; or it ends and the failed sockets are deregistered (85-87).
BroadcastNext ==
    /\ ws.bc.pc = "next"
    /\ LET reg == ws.active_connections
           n == dict_next(reg, ws.bc)
       IN  CASE n.kind = "raise" ->
                   ws' = [ws EXCEPT !.bc.pc = "raised"]
             [] n.kind = "stop" ->
                   ws' = [ws EXCEPT
                            !.bc.pc = "done",
                            !.active_connections =
                                [x \in DOMAIN reg \ ws.bc.failed_connections
                                    |-> reg[x]]]
             [] n.kind = "item" ->
                   \E c \in n.from :
                      ws' = [ws EXCEPT
                               !.bc.visited = @ \cup {c},
                               !.seen[c] = IF c \in DOMAIN reg
                                           THEN @ \cup {ws.bc.pair} ELSE @,
                               !.bc.sending =
                                   IF c \in DOMAIN reg
                                      /\ ~passes_filter(reg[c], ws.bc.pair)
                                   THEN "" ELSE c,
                               !.bc.pc =
                                   IF c \in DOMAIN reg
                                      /\ ~passes_filter(reg[c], ws.bc.pair)
                                   THEN "next" ELSE "sending"]
    /\ UNCHANGED <<cb, rates, history, response, probe, cb_event, fail_run,
                   fail_run_fresh, ho_successes, calls, worker, validator,
                   flight>>

\* The send_json broadcast awaits returns or raises (lines 79-83); a send
\* to a client that has gone raises.
BroadcastSent ==
    /\ ws.bc.pc = "sending"
    /\ \E send_ok \in BOOLEAN :
         LET c == ws.bc.sending
         IN  /\ ws.handler[c].peer = "gone" => ~send_ok
             /\ ws' = [ws EXCEPT
                         !.bc.pc = "next",
                         !.bc.sending = "",
                         !.bc.sent = IF send_ok THEN @ \cup {c} ELSE @,
                         !.got[c] = IF send_ok
                                    THEN @ \cup {ws.bc.pair} ELSE @,
                         !.bc.failed_connections =
                             IF send_ok THEN @ ELSE @ \cup {c}]
    /\ UNCHANGED <<cb, rates, history, response, probe, cb_event, fail_run,
                   fail_run_fresh, ho_successes, calls, worker, validator,
                   flight>>

NextBroadcast ==
    \/ Connect
    \/ ClientDisconnect
    \/ ChannelClosed
    \/ BroadcastStart
    \/ BroadcastNext
    \/ BroadcastSent

SpecBroadcast == Init /\ [][NextBroadcast]_vars

(***************************************************************************)
(* CurrencyManager.validate_currencies (app/services/currency_manager.py). *)
(* The Redis helpers swallow their own errors: a failed read of the        *)
(* validation cache returns None, a failed read of the hot set returns     *)
(* the empty list, a failed write is dropped.  Whether a read, the         *)
(* durable lookup or a write fails is an input.                            *)
(***************************************************************************)

\* The code lists providers hand to populate_supported_currencies.
ProviderLists == {{"USD", "EUR"}, {"USD", "EUR", "SEK"}}

\* RedisManager.get_cached_currency (redis_manager.py 176-225).
get_cached_currency(v, pair, cache_ok) ==
    IF cache_ok THEN v.cache[pair] ELSE NoVerdict

\* RedisManager.get_top_currencies (redis_manager.py 399-417).
get_top_currencies(v, top_ok) ==
    IF top_ok /\ v.top THEN POPULAR_CURRENCIES ELSE {}

\* _cache_validation_result (lines 494-520).
cache_validation_result(v, pair, is_valid, error_message, ttl, write_ok) ==
    IF write_ok
    THEN [v.cache EXCEPT ![pair] = [ ttl |-> ttl, valid |-> is_valid,
                                      error_message |-> error_message ]]
    ELSE v.cache

\* The codes of the pair the table does not hold (lines 378-382).
Unsupported(v, pair) == {pair[1], pair[2]} \ v.supported

\* A durable lookup that answers "not supported" when it fails.
durable_lookup_closed(v, pair, db_ok, write_ok) ==
    IF ~db_ok \/ Unsupported(v, pair) # {}
    THEN [ valid |-> FALSE, reason |-> "Unsupported currency(ies)",
           cache |-> v.cache, decided_by |-> "db" ]
    ELSE [ valid |-> TRUE, reason |-> "",
           cache |-> cache_validation_result(v, pair, TRUE, "", VALID_TTL,
                                             write_ok),
           decided_by |-> "db" ]

\* Step 3 of validate_currencies (lines 365-476): the lookup in the
\* SupportedCurrency table; an exception of it fails open.
durable_lookup(v, pair, db_ok, write_ok) ==
    IF ~db_ok
    THEN [ valid |-> TRUE, reason |-> "", cache |-> v.cache,
           decided_by |-> "db_error" ]
    ELSE IF Unsupported(v, pair) # {}
    THEN [ valid |-> FALSE, reason |-> "Unsupported currency(ies)",
           cache |-> cache_validation_result(v, pair, FALSE,
                        "Unsupported currency(ies)", INVALID_TTL, write_ok),
           decided_by |-> "db" ]
    ELSE [ valid |-> TRUE, reason |-> "",
           cache |-> cache_validation_result(v, pair, TRUE, "", VALID_TTL,
                                             write_ok),
           decided_by |-> "db" ]

\* validate_currencies (lines 292-492): what it returns, the validation
\* cache it leaves, the tiers it consulted in order and the one that
\* decided.
validate_currencies(v, pair, cache_ok, top_ok, db_ok, write_ok) ==
    LET cache_validation == get_cached_currency(v, pair, cache_ok)
        top_currencies == get_top_currencies(v, top_ok)
        db == durable_lookup(v, pair, db_ok, write_ok)
    IN  IF cache_validation # NoVerdict
        THEN [ valid |-> cache_validation.valid,
               reason |-> cache_validation.error_message,
               cache |-> v.cache, consulted |-> <<"cache">>,
               decided_by |-> "cache" ]
        ELSE IF /\ top_currencies # {}
                /\ pair[1] \in top_currencies
                /\ pair[2] \in top_currencies
        THEN [ valid |-> TRUE, reason |-> "",
               cache |-> cache_validation_result(v, pair, TRUE, "", VALID_TTL,
                                                 write_ok),
               consulted |-> <<"cache", "top">>, decided_by |-> "top" ]
        ELSE [ valid |-> db.valid, reason |-> db.reason, cache |-> db.cache,
               consulted |-> <<"cache", "top", "db">>,
               decided_by |-> db.decided_by ]

\* populate_supported_currencies (lines 34-95): the codes the providers
\* list go to the table, the popular codes to the hot set.
Populate ==
    /\ \E listed \in ProviderLists :
         validator' = [validator EXCEPT
                         !.supported = @ \cup listed,
                         !.top = TRUE,
                         !.answer = NoAnswer]
    /\ UNCHANGED <<cb, rates, history, response, probe, cb_event, fail_run,
                   fail_run_fresh, ho_successes, calls, worker, ws,
                   flight>>

\* One call of validate_currencies.  A lookup or a write that is not made
\* cannot fail.
ValidateCurrencies ==
    /\ \E pair \in ValidatedPairs, cache_ok, top_ok, db_ok, write_ok \in BOOLEAN :
         LET r == validate_currencies(validator, pair, cache_ok, top_ok,
                                      db_ok, write_ok)
             made(tier) == \E i \in DOMAIN r.consulted : r.consulted[i] = tier
         IN  /\ ~made("top") => top_ok
             /\ ~made("db") => db_ok
             /\ r.decided_by \in {"cache", "db_error"} => write_ok
             /\ validator' = [validator EXCEPT
                    !.cache = r.cache,
                    !.answer =
                       [ kind |-> "answer", pair |-> pair,
                         valid |-> r.valid, reason |-> r.reason,
                         consulted |-> r.consulted,
                         decided_by |-> r.decided_by,
                         errors |-> {t \in {"cache", "top", "db"} :
                                        \/ t = "cache" /\ ~cache_ok
                                        \/ t = "top" /\ ~top_ok
                                        \/ t = "db" /\ ~db_ok},
                         entry_before |-> validator.cache[pair],
                         top_before |-> validator.top,
                         supported_before |-> validator.supported ]]
    /\ UNCHANGED <<cb, rates, history, response, probe, cb_event, fail_run,
                   fail_run_fresh, ho_successes, calls, worker, ws,
                   flight>>

\* One unit of time passes on the validation keys.
ExpireValidation ==
    /\ validator' = [validator EXCEPT
          !.cache = [pair \in ValidatedPairs |->
                       IF @[pair].ttl <= 1 THEN NoVerdict
                       ELSE [@[pair] EXCEPT !.ttl = @ - 1]],
          !.answer = NoAnswer]
    /\ UNCHANGED <<cb, rates, history, response, probe, cb_event, fail_run,
                   fail_run_fresh, ho_successes, calls, worker, ws,
                   flight>>

\* The key supported_currencies:top expires (TTL 86400 s).
ExpireTop ==
    /\ validator.top
    /\ validator' = [validator EXCEPT !.top = FALSE, !.answer = NoAnswer]
    /\ UNCHANGED <<cb, rates, history, response, probe, cb_event, fail_run,
                   fail_run_fresh, ho_successes, calls, worker, ws,
                   flight>>

NextValidator ==
    \/ Populate
    \/ ValidateCurrencies
    \/ ExpireValidation
    \/ ExpireTop

SpecValidator == Init /\ [][NextValidator]_vars

(***************************************************************************)
(* The health endpoint (app/api/routes/health.py): the statuses of the    *)
(* three services it asks and the overall status it derives from them.    *)
(***************************************************************************)

\* CircuitBreaker.get_status (circuit_breaker.py 241-255); a state that
\* cannot be read reads CLOSED (redis_manager.py 230-249).
get_status(b, cache_ok) ==
    IF (IF cache_ok THEN get_circuit_breaker_state(b) ELSE CLOSED) = CLOSED
    THEN "healthy" ELSE "unhealthy"

\* RateAggregatorService.get_health_status (rate_aggregator.py 750-765).
get_health_status(cache_ok) ==
    IF \A p \in Providers : get_status(cb[p], cache_ok) = "healthy"
    THEN "healthy" ELSE "unhealthy"

\* The services dictionary health_check collects (lines 50-110).
services_of(db_ok, cache_ok, initialized) ==
    [ database |-> IF db_ok THEN "healthy" ELSE "unhealthy",
      cache |-> IF cache_ok THEN "healthy" ELSE "unhealthy",
      rate_aggregator |-> IF initialized THEN get_health_status(cache_ok)
                          ELSE "not_initialized" ]

\* An overall status that takes every service for critical.
determine_overall_health_strict(services) ==
    IF \E name \in DOMAIN services :
          services[name] \in {"degraded", "unhealthy", "error",
                              "not_initialized"}
    THEN "unhealthy" ELSE "healthy"

\* _determine_overall_health (lines 229-259).
determine_overall_health(services) ==
    LET critical_services == {"database", "rate_aggregator"}
        critical_healthy ==
            \A name \in DOMAIN services \cap critical_services :
               services[name] \notin {"unhealthy", "error", "not_initialized"}
        has_degraded ==
            \E name \in DOMAIN services :
               services[name] \in {"degraded", "unhealthy", "error"}
    IN  IF ~critical_healthy THEN "unhealthy"
        ELSE IF has_degraded THEN "degraded"
        ELSE "healthy"

\* One request to /api/v1/health (lines 25-116).
HealthCheck ==
    /\ response = NoResponse
    /\ \E db_ok, cache_ok, initialized \in BOOLEAN :
         LET services == services_of(db_ok, cache_ok, initialized)
         IN  /\ response' = [ kind |-> "health",
                              status |-> determine_overall_health(services) ]
             /\ probe' = [kind |-> "health", services |-> services]
    /\ UNCHANGED <<cb, rates, history, cb_event, fail_run, fail_run_fresh,
                   ho_successes, calls, worker, ws, validator,
                   flight>>

NextHealth ==
    \/ HealthCheck
    \/ Respond
    \/ \E p \in Providers : ForceOpen(p)
    \/ \E p \in Providers : ForceReset(p)
    \/ Tick

SpecHealth == Init /\ [][NextHealth]_vars

(***************************************************************************)
(* The worker await by await (rate_ingestor.py lines 48-85).  One pass of  *)
(* a base's loop has three awaits: get_exchange_rate, set_latest_rate,     *)
(* publish_rate_update; the other bases of the cycle run in between.       *)
(* set_latest_rate answers False on a Redis error and the worker does not  *)
(* look at the answer.                                                     *)
(***************************************************************************)

\* The pair base i is at.
PairOf(w, i) == <<base_currencies[i], target_currencies[w.next[i]]>>

\* A pass that goes from the fetch straight to the publish.
after_fetch_unwritten(w, i, r) ==
    IF r.response.kind = "rate"
    THEN [w EXCEPT !.phase[i] = "publish", !.held[i] = r.response]
    ELSE [w EXCEPT !.next[i] = @ + 1, !.results[PairOf(w, i)] = "fail"]

\* Lines 54-66 and 75-84: get_exchange_rate returned, and the pass goes on
\* to the cache write, or raised, and the pass ends with False.
after_fetch(w, i, r) ==
    IF r.response.kind = "rate"
    THEN [w EXCEPT !.phase[i] = "write", !.held[i] = r.response]
    ELSE [w EXCEPT !.next[i] = @ + 1, !.results[PairOf(w, i)] = "fail"]

\* Line 69: set_latest_rate, whatever it answers.
after_write(w, i) ==
    [w EXCEPT !.phase[i] = "publish",
              !.wrote[PairOf(w, i)] = TRUE,
              !.wrote_in[PairOf(w, i)] = w.cycle_count]

\* Lines 72-74: publish_rate_update, and the pass ends with True.
after_publish(w, i) ==
    [w EXCEPT !.phase[i] = "fetch",
              !.held[i] = NoResponse,
              !.next[i] = @ + 1,
              !.results[PairOf(w, i)] = "ok",
              !.published = publish_rate_update(@, PairOf(w, i)),
              !.sent[PairOf(w, i)] = TRUE,
              !.sent_in[PairOf(w, i)] = w.cycle_count]

\* Base i awaits get_exchange_rate for its next target.
Fetch ==
    /\ worker.pc = "cycle"
    /\ \E i \in DOMAIN base_currencies, in \in WorkerInputs :
         /\ worker.next[i] <= Len(target_currencies)
         /\ worker.phase[i] = "fetch"
         /\ \E stale \in check_stale_cache(PairOf(worker, i), TRUE) :
              \E r \in {get_exchange_rate(PairOf(worker, i), in.valid,
                                          in.outs, TRUE, TRUE, stale)} :
                 /\ cb' = r.cb
                 /\ history' = r.history
                 /\ rates' = r.rates
                 /\ worker' = [after_fetch(worker, i, r) EXCEPT
                                  !.healthy = @ /\ Healthy(in),
                                  !.contacted[PairOf(worker, i)] =
                                      r.trace.breaker_calls]
    /\ UNCHANGED <<response, probe, cb_event, fail_run, fail_run_fresh,
                   ho_successes, calls, ws, validator, flight>>

\* Base i awaits set_latest_rate.
Write ==
    /\ worker.pc = "cycle"
    /\ \E i \in DOMAIN base_currencies, write_ok \in BOOLEAN :
         /\ worker.phase[i] = "write"
         /\ rates' = IF write_ok
                     THEN set_latest_rate(rates, worker.held[i])
                     ELSE rates
         /\ worker' = after_write(worker, i)
    /\ UNCHANGED <<cb, history, response, probe, cb_event, fail_run,
                   fail_run_fresh, ho_successes, calls, ws, validator,
                   flight>>

\* Base i awaits publish_rate_update.
Publish ==
    /\ worker.pc = "cycle"
    /\ \E i \in DOMAIN base_currencies :
         /\ worker.phase[i] = "publish"
         /\ worker' = after_publish(worker, i)
    /\ UNCHANGED <<cb, rates, history, response, probe, cb_event, fail_run,
                   fail_run_fresh, ho_successes, calls, ws, validator,
                   flight>>

NextIngestorOrder ==
    \/ Run
    \/ StartCycle
    \/ Fetch
    \/ Write
    \/ Publish
    \/ UpdateCycleDone
    \/ Sleep
    \/ ExitLoop
    \/ Stop

SpecIngestorOrder == InitIngestor /\ [][NextIngestorOrder]_vars

(***************************************************************************)
(* The breaker under concurrency (circuit_breaker.py lines 53-276).        *)
(* Two coroutines use the breaker of one provider.  A coroutine runs       *)
(* without interruption from one await to the next; a Redis command is     *)
(* one atomic step of the server (the pipeline of                          *)
(* set_circuit_breaker_state and the one of increment_failure_count are    *)
(* MULTI/EXEC transactions), and what the coroutine does with the answer   *)
(* up to its next await belongs to the same step.  A read whose answer     *)
(* only goes to a log (the first line of _transition_state, the count for  *)
(* CircuitBreakerError) is taken together with the step before it.         *)
(***************************************************************************)

\* The other coroutine is inside the breaker.
InFlight(f) == f.pc \notin {"idle", "done"}

\* CircuitBreaker.call, line 57: the state read that admits or sends to the
\* cooldown check.
call_enter(b, f) ==
    [f EXCEPT !.kind = "call",
              !.admitted = get_circuit_breaker_state(b),
              !.pc = IF get_circuit_breaker_state(b) = OPEN
                     THEN "should_attempt_reset" ELSE "func"]

\* CircuitBreaker.call, lines 61-70: the stamp is read; the call goes on to
\* write HALF_OPEN or raises CircuitBreakerError.
call_cooldown(b, f, readable) ==
    IF should_attempt_reset(b, readable)
    THEN [f EXCEPT !.pc = "half_open_write"]
    ELSE [f EXCEPT !.pc = "done", !.result = "blocked"]

\* An _on_success that closes only once the success threshold is exceeded.
on_success_read_late(b, f) ==
    LET current_state == get_circuit_breaker_state(b)
        g == [f EXCEPT !.current_state = current_state]
    IN  IF current_state = HALF_OPEN
        THEN LET c == [b EXCEPT !.consecutive_successes = @ + 1]
             IN  IF c.consecutive_successes > success_threshold
                 THEN [b |-> c, f |-> [g EXCEPT !.pc = "closed_write"]]
                 ELSE [b |-> c, f |-> [g EXCEPT !.pc = "done",
                                                !.result = "returned"]]
        ELSE IF current_state = CLOSED
        THEN [b |-> b, f |-> [g EXCEPT !.pc = "reset"]]
        ELSE [b |-> b, f |-> [g EXCEPT !.pc = "done", !.result = "returned"]]

\* CircuitBreaker._on_success up to its next await (lines 84-113).
on_success_read(b, f) ==
    LET current_state == get_circuit_breaker_state(b)
        g == [f EXCEPT !.current_state = current_state]
    IN  IF current_state = HALF_OPEN
        THEN LET c == [b EXCEPT !.consecutive_successes = @ + 1]
             IN  IF c.consecutive_successes >= success_threshold
                 THEN [b |-> c, f |-> [g EXCEPT !.pc = "closed_write"]]
                 ELSE [b |-> c, f |-> [g EXCEPT !.pc = "done",
                                                !.result = "returned"]]
        ELSE IF current_state = CLOSED
        THEN [b |-> b, f |-> [g EXCEPT !.pc = "reset"]]
        ELSE [b |-> b, f |-> [g EXCEPT !.pc = "done", !.result = "returned"]]

\* CircuitBreaker._on_failure up to its next await (lines 118-127).
on_failure_read(b, f) ==
    LET current_state == get_circuit_breaker_state(b)
        g == [f EXCEPT !.current_state = current_state]
    IN  IF current_state = HALF_OPEN
        THEN [b |-> [b EXCEPT !.consecutive_successes = 0],
              f |-> [g EXCEPT !.pc = "open_read"]]
        ELSE [b |-> b, f |-> [g EXCEPT !.pc = "incr"]]

\* An increment that the caller takes for the threshold only once it is
\* exceeded.
on_failure_incr_late(b, f) ==
    LET c == increment_failure_count(b)
        g == [f EXCEPT !.failure_count = get_failure_count(c),
                       !.before = get_failure_count(b)]
    IN  IF g.failure_count > failure_threshold
        THEN [b |-> c, f |-> [g EXCEPT !.pc = "open_read"]]
        ELSE [b |-> c, f |-> [g EXCEPT !.pc = "done", !.result = "raised"]]

\* CircuitBreaker._on_failure, lines 127-140: the INCR and the threshold
\* test on the count it returned.
on_failure_incr(b, f) ==
    LET c == increment_failure_count(b)
        g == [f EXCEPT !.failure_count = get_failure_count(c),
                       !.before = get_failure_count(b)]
    IN  IF g.failure_count >= failure_threshold
        THEN [b |-> c, f |-> [g EXCEPT !.pc = "open_read"]]
        ELSE [b |-> c, f |-> [g EXCEPT !.pc = "done", !.result = "raised"]]

\* CircuitBreaker._transition_to_open, line 196: the count is read back.
open_read(b, f) ==
    [f EXCEPT !.failure_count = get_failure_count(b), !.pc = "open_write"]

\* What call() gives its caller once the handler is through.
Outcome(f) ==
    IF f.kind # "call" THEN "" ELSE IF f.raised THEN "raised" ELSE "returned"

\* CircuitBreaker._transition_to_open, lines 197-198: the count read at
\* line 196 is written with the state.
open_write(b, f) ==
    [b |-> [set_circuit_breaker_state(b, OPEN, f.failure_count)
               EXCEPT !.consecutive_successes = 0],
     f |-> [f EXCEPT !.pc = "done", !.wrote = OPEN, !.result = Outcome(f)]]

\* CircuitBreaker._transition_to_half_open (lines 200-203); the call then
\* invokes the wrapped function.
half_open_write(b, f) ==
    [b |-> transition_to_half_open(b),
     f |-> [f EXCEPT !.pc = "func", !.wrote = HALF_OPEN]]

\* CircuitBreaker._transition_to_closed, line 190.
closed_write(b, f) ==
    [b |-> set_circuit_breaker_state(b, CLOSED, 0),
     f |-> [f EXCEPT !.pc = "closed_reset", !.wrote = CLOSED]]

\* CircuitBreaker._transition_to_closed, lines 191-192.
closed_reset(b, f) ==
    [b |-> [reset_failure_count(b) EXCEPT !.consecutive_successes = 0],
     f |-> [f EXCEPT !.pc = "done", !.result = Outcome(f)]]

\* The step of coroutine f on breaker b at the await it stands at; raised
\* and readable are used by the two steps that have an input.
Advance(b, f, raised, readable) ==
    CASE f.pc = "should_attempt_reset" ->
            [b |-> b, f |-> call_cooldown(b, f, readable)]
      [] f.pc = "half_open_write" -> half_open_write(b, f)
      [] f.pc = "func" ->
            [b |-> b, f |-> [f EXCEPT !.raised = raised,
                                      !.pc = IF raised THEN "on_failure"
                                             ELSE "on_success"]]
      [] f.pc = "on_success" -> on_success_read(b, f)
      [] f.pc = "reset" ->
            [b |-> reset_failure_count(b),
             f |-> [f EXCEPT !.pc = "done", !.result = "returned"]]
      [] f.pc = "closed_write" -> closed_write(b, f)
      [] f.pc = "closed_reset" -> closed_reset(b, f)
      [] f.pc = "on_failure" -> on_failure_read(b, f)
      [] f.pc = "incr" -> on_failure_incr(b, f)
      [] f.pc = "open_read" -> [b |-> b, f |-> open_read(b, f)]
      [] f.pc = "open_write" -> open_write(b, f)

\* The steps that take an input.
HasInput(pc) == pc \in {"should_attempt_reset", "func"}

\* Coroutine c enters the breaker: call() reads the state, force_open and
\* force_reset start their transition.  Each of two coroutines that are
\* inside together records it.
Enter(c, kind) ==
    LET b == cb[direct]
        f == flight.co[c]
        g == CASE kind = "call" -> call_enter(b, f)
               [] kind = "force_open" ->
                     [f EXCEPT !.kind = kind, !.pc = "open_read"]
               [] kind = "force_reset" ->
                     [f EXCEPT !.kind = kind, !.pc = "closed_write"]
        met == \E d \in Callers \ {c} : InFlight(flight.co[d])
    IN  /\ f.pc = "idle"
        /\ flight.entered < MaxEnters
        /\ flight' = [flight EXCEPT
              !.entered = @ + 1,
              !.co = [d \in Callers |->
                        IF d = c THEN [g EXCEPT !.met = IF met THEN 1 ELSE 0]
                        ELSE IF InFlight(flight.co[d])
                        THEN [flight.co[d] EXCEPT !.met = Min(@ + 1, 2)]
                        ELSE flight.co[d]]]
        /\ UNCHANGED <<cb, rates, history, response, probe, cb_event,
                       fail_run, fail_run_fresh, ho_successes, calls,
                       worker, ws, validator>>

\* Coroutine c is resumed and runs to its next await.
Step(c, raised, readable) ==
    LET b == cb[direct]
        f == flight.co[c]
        r == Advance(b, f, raised, readable)
    IN  /\ InFlight(f)
        /\ ~HasInput(f.pc) => (~raised /\ readable)
        /\ f.pc = "func" => readable
        /\ f.pc = "should_attempt_reset" => ~raised
        /\ cb' = [cb EXCEPT ![direct] = r.b]
        /\ flight' = [flight EXCEPT
              !.co[c] = r.f,
              !.failure_age = IF f.pc = "on_failure" THEN 0 ELSE @,
              !.opened_by = IF f.pc = "open_write" THEN f.kind ELSE @]
        /\ UNCHANGED <<rates, history, response, probe, cb_event, fail_run,
                       fail_run_fresh, ho_successes, calls, worker, ws,
                       validator>>

\* call(), force_open() or force_reset() returns to its caller.
Leave(c) ==
    /\ flight.co[c].pc = "done"
    /\ flight' = [flight EXCEPT !.co[c] = Idle]
    /\ UNCHANGED <<cb, rates, history, response, probe, cb_event, fail_run,
                   fail_run_fresh, ho_successes, calls, worker, ws,
                   validator>>

\* One unit of time passes, wherever the coroutines stand.
Elapse ==
    /\ cb' = [p \in Providers |-> TickBreaker(cb[p])]
    /\ flight' = [flight EXCEPT
          !.co = [c \in Callers |->
                    IF flight.co[c].pc # "idle"
                    THEN [flight.co[c] EXCEPT !.aged = TRUE]
                    ELSE flight.co[c]],
          !.failure_age = IF @ = -1 THEN -1 ELSE Min(@ + 1, MaxAge)]
    /\ UNCHANGED <<rates, history, response, probe, cb_event, fail_run,
                   fail_run_fresh, ho_successes, calls, worker, ws,
                   validator>>

NextConcurrent ==
    \/ \E c \in Callers, kind \in {"call", "force_open", "force_reset"} :
          Enter(c, kind)
    \/ \E c \in Callers, raised \in BOOLEAN, readable \in BOOLEAN :
          Step(c, raised, readable)
    \/ \E c \in Callers : Leave(c)
    \/ Elapse

SpecConcurrent == Init /\ [][NextConcurrent]_vars

\* A breaker on probation: opened by force_open, its cooldown over, the
\* call that found it OPEN wrote HALF_OPEN, and success_threshold - 1
\* calls have succeeded since.
HalfOpenProbed ==
    [transition_to_half_open(TickBreaker(transition_to_open(NewBreaker)))
        EXCEPT !.consecutive_successes = success_threshold - 1]

InitHalfOpen ==
    /\ cb = [p \in Providers |->
               IF p = direct THEN HalfOpenProbed ELSE NewBreaker]
    /\ rates = [pair \in Pairs |-> NoEntry]
    /\ history = [pair \in Pairs |-> NoHistory]
    /\ response = NoResponse
    /\ probe = NoProbe
    /\ cb_event = NoEvent
    /\ fail_run = 0
    /\ fail_run_fresh = 0
    /\ ho_successes = 0
    /\ calls = 0
    /\ worker = NewWorker
    /\ ws = NewHub
    /\ validator = NewValidator
    /\ flight = [NewFlight EXCEPT !.opened_by = "force_open"]

\* Two coroutines at the breaker on probation.
SpecHalfOpen == InitHalfOpen /\ [][NextConcurrent]_vars

(***************************************************************************)
(* get_exchange_rate await by await (rate_aggregator.py lines 82-124).     *)
(* After a cache miss the call awaits _try_provider for the primary, then  *)
(* _try_secondary_providers, which gathers one _try_provider coroutine per *)
(* secondary, then fuses.  A provider's call through its breaker is taken  *)
(* as one step at its completion; time may pass at every await.             *)
(***************************************************************************)

\* A request that creates every provider's coroutine at once.
fan_launch_all(f, pair) ==
    [f EXCEPT !.pc = "primary", !.pair = pair,
              !.status = [p \in Providers |-> "running"]]

\* Line 108: the primary's _try_provider is awaited.
fan_launch(f, pair) ==
    [f EXCEPT !.pc = "primary", !.pair = pair,
              !.status = [p \in Providers |->
                            IF p = primary_provider THEN "running"
                            ELSE "idle"]]

\* A _try_provider coroutine returns r; the primary's return resumes
\* get_exchange_rate, which goes on to line 111.
fan_complete(f, p, r) ==
    [f EXCEPT !.status[p] = "done",
              !.t[p] = [seen |-> r.seen, invoked |-> r.invoked,
                        rate |-> r.rate],
              !.pc = IF p = primary_provider THEN "gather" ELSE @]

\* Lines 199-204: asyncio.gather starts one coroutine per secondary.
fan_gather(f) ==
    [f EXCEPT !.pc = "secondaries",
              !.status = [p \in Providers |->
                            IF p # primary_provider THEN "running"
                            ELSE @[p]]]

\* Lines 83-108: a valid request misses the cache and calls the primary.
FanLaunch ==
    /\ flight.fan.pc = "idle"
    /\ response = NoResponse
    /\ calls < MaxCalls
    /\ \E pair \in Pairs :
         /\ check_cache(pair) = NoEntry
         /\ flight' = [flight EXCEPT !.fan = fan_launch(@, pair)]
    /\ calls' = calls + 1
    /\ UNCHANGED <<cb, rates, history, response, probe, cb_event, fail_run,
                   fail_run_fresh, ho_successes, worker, ws, validator>>

\* A running _try_provider coroutine completes (lines 126-192).
FanComplete(p, outcome, readable) ==
    /\ flight.fan.status[p] = "running"
    /\ \E r \in {try_provider(cb[p], outcome, readable)} :
         /\ cb' = [cb EXCEPT ![p] = r.b]
         /\ flight' = [flight EXCEPT !.fan = fan_complete(@, p, r)]
    /\ UNCHANGED <<rates, history, response, probe, cb_event, fail_run,
                   fail_run_fresh, ho_successes, calls, worker, ws,
                   validator>>

\* Line 111 with lines 196-204.
FanGather ==
    /\ flight.fan.pc = "gather"
    /\ flight' = [flight EXCEPT !.fan = fan_gather(@)]
    /\ UNCHANGED <<cb, rates, history, response, probe, cb_event, fail_run,
                   fail_run_fresh, ho_successes, calls, worker, ws,
                   validator>>

\* Lines 204-219 and 114-124: gather returns once every secondary is done; the call
\* fuses, writes the cache, logs the rows and returns.
FanFuse(db_ok) ==
    /\ flight.fan.pc = "secondaries"
    /\ \A i \in 1..Len(SecondaryProviders) :
         flight.fan.status[SecondaryProviders[i]] = "done"
    /\ \E stale \in check_stale_cache(flight.fan.pair, db_ok) :
         \E result \in {aggregate_results(flight.fan.pair, flight.fan.t,
                                          stale)} :
           /\ response' = result
           /\ rates' = IF result.kind = "rate" THEN update_cache(result)
                       ELSE rates
           /\ history' = IF result.kind = "rate"
                         THEN log_results_to_db(flight.fan.pair,
                                                flight.fan.t, db_ok)
                         ELSE history
    /\ flight' = [flight EXCEPT !.fan.pc = "fused"]
    /\ UNCHANGED <<cb, probe, cb_event, fail_run, fail_run_fresh,
                   ho_successes, calls, worker, ws, validator>>

\* The caller takes the response.
FanRespond ==
    /\ flight.fan.pc = "fused"
    /\ response' = NoResponse
    /\ flight' = [flight EXCEPT !.fan = NoFanout]
    /\ UNCHANGED <<cb, rates, history, probe, cb_event, fail_run,
                   fail_run_fresh, ho_successes, calls, worker, ws,
                   validator>>

NextFanout ==
    \/ FanLaunch
    \/ \E p \in Providers, outcome \in Outcomes, readable \in BOOLEAN :
         FanComplete(p, outcome, readable)
    \/ FanGather
    \/ \E db_ok \in BOOLEAN : FanFuse(db_ok)
    \/ FanRespond
    \/ Tick

SpecFanout == Init /\ [][NextFanout]_vars

(***************************************************************************)
(* Properties of the breaker (SpecCB)                                      *)
(***************************************************************************)

\* The last direct call was admitted, in the state named.
AdmittedIn(state) ==
    /\ cb_event.kind = "call"
    /\ cb_event.result # "blocked"
    /\ get_circuit_breaker_state(cb_event.admitted) = state

\* C1, as stated: counting from CLOSED with failure count 0, a failed call
\* leaves the breaker CLOSED while fewer than failure_threshold calls have
\* failed in a row and writes OPEN when the run reaches failure_threshold;
\* a successful call in CLOSED leaves the failure count at 0.  The run is
\* counted over the calls alone, whatever the time between them.
C1_AsStated ==
    AdmittedIn(CLOSED) =>
        IF cb_event.raised
        THEN get_circuit_breaker_state(cb_event.after) =
                 (IF cb_event.fail_run >= failure_threshold
                  THEN OPEN ELSE CLOSED)
        ELSE /\ get_circuit_breaker_state(cb_event.after) = CLOSED
             /\ get_failure_count(cb_event.after) = 0

\* C1, amended: the same, for failed calls in a row between which the
\* failures entry does not expire (each within CIRCUIT_BREAKER_TTL of the
\* one before): the breaker is CLOSED after each of the first
\* failure_threshold - 1 and OPEN after the failure_threshold-th; a
\* successful call in CLOSED resets the count to 0.
C1_Amended ==
    AdmittedIn(CLOSED) =>
        IF cb_event.raised
        THEN /\ cb_event.fail_run_fresh <= failure_threshold
             /\ get_circuit_breaker_state(cb_event.after) =
                    (IF cb_event.fail_run_fresh = failure_threshold
                     THEN OPEN ELSE CLOSED)
             /\ get_failure_count(cb_event.after) = cb_event.fail_run_fresh
        ELSE /\ get_circuit_breaker_state(cb_event.after) = CLOSED
             /\ get_failure_count(cb_event.after) = 0
             /\ cb_event.fail_run_fresh = 0

\* The failure_threshold-th failed call in a row has opened the breaker.
C1_Witness ==
    /\ AdmittedIn(CLOSED)
    /\ cb_event.raised
    /\ cb_event.fail_run_fresh = failure_threshold
    /\ get_circuit_breaker_state(cb_event.after) = OPEN

\* C2: in HALF_OPEN, a successful call leaves HALF_OPEN while fewer than
\* success_threshold calls have succeeded in a row, and the
\* success_threshold-th writes CLOSED with failure count 0 and the success
\* counter back at 0; a failed call writes OPEN, puts the success counter
\* back to 0 and leaves the failure count as it was.
C2_HalfOpen ==
    AdmittedIn(HALF_OPEN) =>
        IF cb_event.raised
        THEN /\ get_circuit_breaker_state(cb_event.after) = OPEN
             /\ cb_event.after.consecutive_successes = 0
             /\ get_failure_count(cb_event.after) =
                    get_failure_count(cb_event.admitted)
        ELSE IF cb_event.ho_successes < success_threshold
        THEN get_circuit_breaker_state(cb_event.after) = HALF_OPEN
        ELSE /\ cb_event.ho_successes = success_threshold
             /\ get_circuit_breaker_state(cb_event.after) = CLOSED
             /\ get_failure_count(cb_event.after) = 0
             /\ cb_event.after.consecutive_successes = 0

\* The success_threshold-th success in a row has closed the breaker.
C2_Witness ==
    /\ AdmittedIn(HALF_OPEN)
    /\ ~cb_event.raised
    /\ cb_event.ho_successes = success_threshold
    /\ get_circuit_breaker_state(cb_event.after) = CLOSED

\* C3: a call that finds the stored state OPEN is rejected, the function
\* not invoked and nothing written, when the last-failure stamp is read and
\* younger than recovery_timeout; otherwise (the cooldown has elapsed, the
\* stamp is missing or cannot be read) HALF_OPEN is written before the
\* function is invoked.
C3_OpenAdmission ==
    (cb_event.kind = "call"
        /\ get_circuit_breaker_state(cb_event.before) = OPEN) =>
        IF /\ cb_event.readable
           /\ cb_event.before.last_failure # -1
           /\ cb_event.before.last_failure < recovery_timeout
        THEN /\ cb_event.result = "blocked"
             /\ cb_event.after = cb_event.before
        ELSE /\ cb_event.result # "blocked"
             /\ get_circuit_breaker_state(cb_event.admitted) = HALF_OPEN

\* An OPEN breaker whose cooldown has elapsed has admitted a call.
C3_Witness ==
    /\ cb_event.kind = "call"
    /\ get_circuit_breaker_state(cb_event.before) = OPEN
    /\ cb_event.readable
    /\ cb_event.before.last_failure >= recovery_timeout
    /\ cb_event.result # "blocked"

(***************************************************************************)
(* Properties of get_exchange_rate (Spec), stated of the call whose        *)
(* response is pending                                                     *)
(***************************************************************************)

\* The call was for a valid pair and found no fresh entry.
Fetched ==
    /\ probe.kind = "call"
    /\ probe.valid
    /\ probe.entry_before = NoEntry

PrimaryOk == probe.trace.seen[primary_provider] = "ok"

\* The secondaries that succeeded, and their rates.
OkSecondaries ==
    SelectSeq(SecondaryProviders, LAMBDA n : probe.trace.seen[n] = "ok")

OkSecondaryRates ==
    [i \in 1..Len(OkSecondaries) |-> probe.trace.rate[OkSecondaries[i]]]

OkRates == <<probe.trace.rate[primary_provider]>> \o OkSecondaryRates

\* max |r - mean| over the successful rates
Deviation == MaxDeviation(OkRates, DecimalDiv(SumSeq(OkRates), Len(OkRates)))

Has(warnings, w) == \E i \in DOMAIN warnings : warnings[i] = w

\* The rates entry of the pair holds the response, with the full TTL.
CacheHoldsResponse ==
    /\ rates[probe.pair].ttl = RATE_CACHE_TTL
    /\ StrToDecimal(rates[probe.pair].rate) = response.rate
    /\ rates[probe.pair].confidence_level = response.confidence_level
    /\ rates[probe.pair].sources_used = response.sources_used
    /\ rates[probe.pair].is_primary_used = response.is_primary_used

\* C4: on a cache miss where the primary succeeds and no secondary does,
\* the response is the primary's rate, confidence high, sources [primary],
\* is_primary_used, not cached, and the rates entry then holds it.
C4_PrimaryOnly ==
    (Fetched /\ PrimaryOk /\ Len(OkSecondaries) = 0) =>
        /\ response.kind = "rate"
        /\ response.rate = probe.trace.rate[primary_provider]
        /\ response.confidence_level = "high"
        /\ response.sources_used = <<primary_provider>>
        /\ response.is_primary_used
        /\ ~response.cached
        /\ CacheHoldsResponse

\* The primary alone has answered, a secondary was blocked or failed.
C4_Witness ==
    /\ Fetched /\ PrimaryOk /\ Len(OkSecondaries) = 0
    /\ response.kind = "rate"
    /\ \E p \in Providers : probe.trace.seen[p] = "raise"
    /\ \E p \in Providers : probe.trace.seen[p] = "payload"

\* C5: when the primary and at least one secondary succeed and every rate
\* is within the deviation bound of the mean, the response is the mean of
\* all successful rates, confidence high, sources the primary and those
\* secondaries, is_primary_used true, no warning.
C5_AsStated ==
    (Fetched /\ PrimaryOk /\ Len(OkSecondaries) > 0
        /\ Deviation < DEVIATION_THRESHOLD) =>
        /\ response.kind = "rate"
        /\ response.rate = DecimalDiv(SumSeq(OkRates), Len(OkRates))
        /\ response.confidence_level = "high"
        /\ response.sources_used = <<primary_provider>> \o OkSecondaries
        /\ response.is_primary_used
        /\ response.warnings = <<>>

\* The primary and a secondary have answered with rates close together.
C5_Witness ==
    /\ Fetched /\ PrimaryOk /\ Len(OkSecondaries) > 0
    /\ Deviation < DEVIATION_THRESHOLD
    /\ response.kind = "rate"
    /\ response.rate # probe.trace.rate[primary_provider]

\* C6: when the primary and at least one secondary succeed and some rate
\* lies the deviation threshold or more from the mean, the response is the
\* primary's rate, confidence high, is_primary_used true, sources [primary]
\* only, with a high-deviation warning.
C6_AsStated ==
    (Fetched /\ PrimaryOk /\ Len(OkSecondaries) > 0
        /\ Deviation >= DEVIATION_THRESHOLD) =>
        /\ response.kind = "rate"
        /\ response.rate = probe.trace.rate[primary_provider]
        /\ response.confidence_level = "high"
        /\ response.is_primary_used
        /\ response.sources_used = <<primary_provider>>
        /\ Has(response.warnings, "high_deviation")

\* The primary and a secondary have answered with rates far apart.
C6_Witness ==
    /\ Fetched /\ PrimaryOk /\ Len(OkSecondaries) > 0
    /\ Deviation >= DEVIATION_THRESHOLD
    /\ response.kind = "rate"
    /\ response.rate = probe.trace.rate[primary_provider]

\* C7: when the primary fails or is blocked and at least one secondary
\* succeeds, the response is the mean of the successful secondaries' rates
\* (the lone rate if there is one), confidence medium, is_primary_used
\* false, sources exactly those secondaries, with the warning that the
\* primary is unavailable.
C7_SecondariesOnly ==
    (Fetched /\ ~PrimaryOk /\ Len(OkSecondaries) > 0) =>
        /\ response.kind = "rate"
        /\ response.rate * Len(OkSecondaries) = SumSeq(OkSecondaryRates)
        /\ response.confidence_level = "medium"
        /\ ~response.is_primary_used
        /\ response.sources_used = OkSecondaries
        /\ Has(response.warnings, "primary_unavailable")

\* Two secondaries with different rates have answered for a failed primary.
C7_Witness ==
    /\ Fetched /\ ~PrimaryOk /\ Len(OkSecondaries) = 2
    /\ OkSecondaryRates[1] # OkSecondaryRates[2]
    /\ response.kind = "rate"

\* C8: when no provider succeeds and the durable store holds a successful
\* row of the pair, the response is the rate of a most recent row,
\* confidence low, cached, is_primary_used false, sources that row's
\* provider, with the all-unavailable and stale-age warnings, and the rates
\* entry is not written.
C8_StaleRow ==
    (Fetched /\ ~PrimaryOk /\ Len(OkSecondaries) = 0
        /\ probe.db_ok /\ probe.history_before.rows # {}) =>
        /\ response.kind = "rate"
        /\ \E row \in probe.history_before.rows :
              /\ response.rate = row.rate
              /\ response.sources_used = <<row.provider>>
        /\ response.confidence_level = "low"
        /\ response.cached
        /\ ~response.is_primary_used
        /\ Has(response.warnings, "all_providers_unavailable")
        /\ Has(response.warnings, "stale_age")
        /\ rates[probe.pair] = NoEntry

\* Every provider has failed and a stored row has answered.
C8_Witness ==
    /\ Fetched /\ ~PrimaryOk /\ Len(OkSecondaries) = 0
    /\ probe.db_ok /\ probe.history_before.rows # {}
    /\ response.kind = "rate"
    /\ response.cached

\* C9: when no provider succeeds and the durable store yields no row (none
\* exists, or the lookup raises), the call fails with the no-rate error
\* and the rates entry of the pair is not written.
C9_NoRate ==
    (Fetched /\ ~PrimaryOk /\ Len(OkSecondaries) = 0
        /\ (~probe.db_ok \/ probe.history_before.rows = {})) =>
        /\ response.kind = "no_rate"
        /\ rates[probe.pair] = NoEntry

\* Every provider has failed and the lookup of an existing row has raised.
C9_Witness ==
    /\ Fetched /\ ~PrimaryOk /\ Len(OkSecondaries) = 0
    /\ ~probe.db_ok /\ probe.history_before.rows # {}
    /\ response.kind = "no_rate"

\* C10: when the validator rejects the pair, the call fails with the
\* invalid-currency error without reading the rates entry, calling a
\* breaker or a provider, or writing the rates entry.
C10_InvalidCurrency ==
    (probe.kind = "call" /\ ~probe.valid) =>
        /\ response.kind = "invalid_currency"
        /\ ~probe.trace.cache_read
        /\ probe.trace.breaker_calls = {}
        /\ probe.trace.invoked = {}
        /\ rates[probe.pair] = probe.entry_before

\* A rejected pair whose rates entry was fresh.
C10_Witness ==
    /\ probe.kind = "call" /\ ~probe.valid
    /\ response.kind = "invalid_currency"
    /\ probe.entry_before # NoEntry

\* C11: when the rates entry of the pair is fresh, the call returns the
\* entry's rate, confidence and sources marked cached, calls no breaker and
\* no provider, and leaves the entry and its remaining TTL as they were.
C11_CacheHit ==
    (probe.kind = "call" /\ probe.valid /\ probe.entry_before # NoEntry) =>
        /\ response.kind = "rate"
        /\ response.rate = StrToDecimal(probe.entry_before.rate)
        /\ response.confidence_level = probe.entry_before.confidence_level
        /\ response.sources_used = probe.entry_before.sources_used
        /\ response.cached
        /\ probe.trace.breaker_calls = {}
        /\ probe.trace.invoked = {}
        /\ rates[probe.pair] = probe.entry_before

\* An entry with part of its TTL gone has answered a call.
C11_Witness ==
    /\ probe.kind = "call" /\ probe.valid
    /\ probe.entry_before # NoEntry
    /\ probe.entry_before.ttl < RATE_CACHE_TTL
    /\ response.kind = "rate"
    /\ response.cached

C13_AsStated ==
    response.kind = "rate" =>
        /\ response.confidence_level \in {"high", "medium", "low"}
        /\ response.confidence_level = "high" => response.is_primary_used
        /\ response.confidence_level = "low" =>
              (response.cached /\ response.sources_used # <<>>)

\* A rate fused from the primary and a secondary has been returned.
C13_Witness ==
    /\ Fetched /\ PrimaryOk /\ Len(OkSecondaries) > 0
    /\ response.kind = "rate"
    /\ response.confidence_level = "high"

(***************************************************************************)
(* Properties of fusion (SpecFusion)                                       *)
(***************************************************************************)

\* C14: no rate is returned that is zero or negative, whatever the
\* providers answer and whatever row the durable store holds.
C14_AsStated ==
    response.kind = "rate" => response.rate > 0

\* A successful payload with rate zero has been fused into a response.
C14_Witness ==
    /\ probe.kind = "fusion"
    /\ probe.trace.seen[primary_provider] = "ok"
    /\ probe.trace.rate[primary_provider] = 0
    /\ response.kind = "rate"

\* C15: for every combination of provider outcomes (rate, payload error,
\* raised error) and breaker states, the call returns a rate or fails with
\* the no-rate error, nothing else; a provider whose breaker rejects the
\* call is not invoked, and the response is the one fusion gives when that
\* provider has failed.
C15_BlockedIsFailed ==
    probe.kind = "fusion" =>
        LET blocked(p) == Admission(probe.breakers[p], TRUE).rejected
            failed == [p \in Providers |->
                         IF blocked(p) THEN [seen |-> "raise", rate |-> 0]
                         ELSE [seen |-> probe.outs[p].kind,
                               rate |-> probe.outs[p].rate]]
        IN  /\ response.kind \in {"rate", "no_rate"}
            /\ response = aggregate_results(probe.pair, failed, probe.stale)
            /\ \A p \in Providers : blocked(p) => p \notin probe.trace.invoked

\* The primary's breaker has rejected the call and a secondary has answered.
C15_Witness ==
    /\ probe.kind = "fusion"
    /\ Admission(probe.breakers[primary_provider], TRUE).rejected
    /\ probe.outs[primary_provider].kind = "ok"
    /\ response.kind = "rate"
    /\ response.confidence_level = "medium"

\* C16: a provider call that times out (the request raises) and was
\* admitted by the breaker adds exactly one to that breaker's failure
\* count, and comes back as a failed Call Result, no exception leaving the
\* provider call.
C16_AsStated ==
    probe.kind = "fusion" =>
        \A p \in Providers :
            (probe.outs[p].kind = "raise"
                /\ ~Admission(probe.breakers[p], TRUE).rejected) =>
                /\ get_failure_count(probe.after[p]) =
                       get_failure_count(probe.breakers[p]) + 1
                /\ probe.trace.seen[p] = "payload"

\* A timed-out call has been counted as one failure by its breaker.
C16_Witness ==
    /\ probe.kind = "fusion"
    /\ probe.outs[primary_provider].kind = "raise"
    /\ ~Admission(probe.breakers[primary_provider], TRUE).rejected
    /\ get_failure_count(probe.after[primary_provider]) =
           get_failure_count(probe.breakers[primary_provider]) + 1

(***************************************************************************)
(* Properties of the ingestor (SpecIngestor, SpecIngestorLive)             *)
(***************************************************************************)

\* The messages published on rates:broadcast so far.
PublishCount ==
    SumSeq([k \in DOMAIN PairList |-> worker.published[PairList[k]]])

\* The cycles run() has been through, sleep not counted.
CyclesDone ==
    /\ worker.pc \in {"sleep", "check", "exited"}
    /\ worker.cycle_count >= 1

\* C17: when the ingestor has run K cycles over its M configured pairs and
\* every call met valid currencies and healthy providers, exactly K*M
\* messages have been published on rates:broadcast, K for each pair, and
\* the entry rates:BASE:TARGET of every pair is present.
C17_HealthyCycles ==
    (CyclesDone /\ worker.healthy)
        => /\ PublishCount = worker.cycle_count * Len(PairList)
           /\ \A pair \in WorkerPairs :
                 /\ worker.published[pair] = worker.cycle_count
                 /\ rates[pair] # NoEntry

\* Two healthy cycles are through: the second met the entries of the first.
C17_Witness ==
    /\ worker.healthy
    /\ worker.pc = "sleep"
    /\ worker.cycle_count = 2
    /\ PublishCount = 2 * Len(PairList)
    /\ \A pair \in WorkerPairs : rates[pair].ttl = RATE_CACHE_TTL

\* C18: a pair whose get_exchange_rate failed in the current cycle has had
\* no cache write and no publish in that cycle, and when update_cycle
\* returns every pair of the cycle has been attempted, the pairs after a
\* failed one (of the same base and of the other bases) included.
C18_FailureIsolated ==
    /\ \A pair \in WorkerPairs :
          worker.results[pair] = "fail"
              => ~worker.wrote[pair] /\ ~worker.sent[pair]
    /\ worker.pc = "sleep"
          => \A pair \in WorkerPairs : worker.results[pair] # "none"

\* A cycle is through in which the first pair of the first base failed and
\* the pairs after it were written and published.
C18_Witness ==
    /\ worker.pc = "sleep"
    /\ worker.results[PairList[1]] = "fail"
    /\ \A k \in DOMAIN PairList :
          k > 1 => /\ worker.results[PairList[k]] = "ok"
                   /\ worker.wrote[PairList[k]]
                   /\ worker.sent[PairList[k]]

\* stop() was called while run() was in its loop.
StoppedInLoop == worker.stopped_in \in {"check", "cycle", "sleep"}

\* C19: once stop() has been called while run() was in its loop, run()
\* starts no update cycle any more (the cycle it is in and the sleep after
\* it are the last), and the loop is eventually left.
C19_StopExits ==
    /\ [][StoppedInLoop => worker'.cycle_count = worker.cycle_count]_vars
    /\ (StoppedInLoop ~> worker.pc = "exited")

\* run() has returned after a stop() that came in the middle of the first
\* cycle.
C19_Witness ==
    /\ worker.pc = "exited"
    /\ worker.stopped_in = "cycle"
    /\ worker.cycle_count = 1
    /\ ~worker.is_running

(***************************************************************************)
(* Properties of the WebSocket side (SpecWS)                               *)
(***************************************************************************)

\* C20: of the messages handled for a client, those passed to its
\* send_json are exactly the ones whose pair is in its subscription set,
\* or all of them when the set is empty; a client with a non-empty set is
\* never sent a pair outside it.
C20_Filter ==
    \A c \in Clients :
       LET subs == ws.handler[c].subscribed_pairs
       IN  /\ \A pair \in ws.seen[c] :
                 pair \in ws.got[c] <=> (subs = {} \/ pair \in subs)
           /\ ws.got[c] \subseteq ws.seen[c]
           /\ subs # {} => ws.got[c] \subseteq subs

\* One client takes every pair, the other only USD/NGN; both were handed
\* USD/NGN and EUR/NGN, and the second was sent only the first of them.
C20_Witness ==
    \E c, d \in Clients :
       /\ ws.handler[c].subscribed_pairs = {}
       /\ ws.handler[d].subscribed_pairs = {"USD/NGN"}
       /\ ws.seen[c] = {"USD/NGN", "EUR/NGN"}
       /\ ws.got[c] = {"USD/NGN", "EUR/NGN"}
       /\ ws.seen[d] = {"USD/NGN", "EUR/NGN"}
       /\ ws.got[d] = {"USD/NGN"}

\* The socket of client c is off the registry and its subscription is
\* released or on its way to be.
Removed(c) ==
    /\ c \notin DOMAIN ws.active_connections
    /\ ws.handler[c].pubsub # "subscribed"

\* C21: a handler that has exited, on any path, has left its socket off
\* the registry; after a send of the handler has raised (the welcome
\* message included) the socket is off the registry, the subscription is
\* no longer open and the handler sends nothing more; and once the client
\* has disconnected and the handler has handled a message since, the same
\* holds.
C21_AsStated ==
    \A c \in Clients :
       LET h == ws.handler[c]
       IN  /\ h.pc = "closed" => c \notin DOMAIN ws.active_connections
           /\ h.send_failed => h.pc = "closed" /\ Removed(c)
           /\ (h.peer = "gone" /\ h.after_gone) => h.pc = "closed" /\ Removed(c)

\* The client has gone, its handler has since handled a message that its
\* filter skipped, and the socket is still registered and subscribed.
C21_Witness ==
    \E c \in Clients :
       /\ ws.handler[c].peer = "gone"
       /\ ws.handler[c].after_gone
       /\ ws.handler[c].subscribed_pairs # {}
       /\ ws.handler[c].pc = "listening"
       /\ c \in DOMAIN ws.active_connections
       /\ ws.handler[c].pubsub = "subscribed"

\* C22: a payload that is not JSON never reaches the handler, and the
\* messages after it do; the iterator of subscribe_to_rates raises on no
\* exit path, neither into its consumer nor at its disposal, and once the
\* iterator is over its pub/sub handle has been unsubscribed and closed.
C22_AsStated ==
    \A c \in Clients :
       LET h == ws.handler[c]
       IN  /\ "" \notin ws.seen[c]
           /\ h.raised = "no"
           /\ h.pubsub # "leaked"

\* The channel was torn down under a listening handler and the unsubscribe
\* of the finally clause raised: the exception reached the handler and the
\* handle was left without close().
C22_Witness ==
    \E c \in Clients :
       /\ ws.handler[c].pc = "closed"
       /\ ws.handler[c].raised = "consumer"
       /\ ws.handler[c].pubsub = "leaked"
       /\ ~ws.handler[c].send_failed

(***************************************************************************)
(* Properties of validate_currencies (SpecValidator), stated of the last   *)
(* call                                                                    *)
(***************************************************************************)

\* The tier that decides the last call: the validation cache when its
\* entry is read, else the hot set when it is read and holds both codes,
\* else the durable lookup.
CacheDecides ==
    /\ "cache" \notin validator.answer.errors
    /\ validator.answer.entry_before # NoVerdict

TopDecides ==
    /\ ~CacheDecides
    /\ "top" \notin validator.answer.errors
    /\ validator.answer.top_before
    /\ validator.answer.pair[1] \in POPULAR_CURRENCIES
    /\ validator.answer.pair[2] \in POPULAR_CURRENCIES

\* The tiers are consulted in order and the call returns at the first
\* that decides.
TierOrder ==
    LET a == validator.answer
    IN  /\ CacheDecides
           => /\ a.consulted = <<"cache">>
              /\ a.valid = a.entry_before.valid
              /\ a.reason = a.entry_before.error_message
        /\ TopDecides => a.consulted = <<"cache", "top">> /\ a.valid
        /\ (~CacheDecides /\ ~TopDecides)
              => a.consulted = <<"cache", "top", "db">>

\* (false, reason) comes only from a negative entry or from a durable
\* lookup that succeeded and found a code that is not supported.
NegativeOnlyFrom ==
    LET a == validator.answer
    IN  ~a.valid
          => \/ CacheDecides /\ ~a.entry_before.valid
             \/ /\ a.consulted = <<"cache", "top", "db">>
                /\ "db" \notin a.errors
                /\ {a.pair[1], a.pair[2]} \ a.supported_before # {}

\* C23 as stated: the tiers in order, (false, reason) only from a negative
\* entry or a successful durable lookup, and (true, none) whenever a
\* lookup of the call failed.
C23_AsStated ==
    validator.answer # NoAnswer
        => /\ TierOrder
           /\ NegativeOnlyFrom
           /\ validator.answer.errors # {}
                 => validator.answer.valid /\ validator.answer.reason = ""

\* C23 amended: the tiers in order, (false, reason) only from a negative
\* entry or a successful durable lookup; a failed read of the validation
\* cache or of the hot set counts as a miss and leaves the decision to the
\* next tier, and only a failed durable lookup yields (true, none).
C23_Amended ==
    validator.answer # NoAnswer
        => /\ TierOrder
           /\ NegativeOnlyFrom
           /\ "db" \in validator.answer.errors
                 => validator.answer.valid /\ validator.answer.reason = ""

\* The read of the validation cache failed, the hot set did not hold both
\* codes, and the durable lookup found a code that is not supported: the
\* call returned (false, reason).
C23_Witness ==
    /\ validator.answer # NoAnswer
    /\ "cache" \in validator.answer.errors
    /\ validator.answer.consulted = <<"cache", "top", "db">>
    /\ validator.answer.decided_by = "db"
    /\ ~validator.answer.valid
    /\ validator.answer.top_before

(***************************************************************************)
(* Properties of the health endpoint (SpecHealth)                          *)
(***************************************************************************)

\* C24: the overall status of a health response is unhealthy if the
\* database or the rate aggregator reports unhealthy, error or
\* not_initialized; otherwise degraded if the cache reports degraded or
\* unhealthy; otherwise healthy.
C24_OverallHealth ==
    response.kind = "health"
        => LET s == probe.services
               down == {"unhealthy", "error", "not_initialized"}
           IN  response.status =
                  IF s.database \in down \/ s.rate_aggregator \in down
                  THEN "unhealthy"
                  ELSE IF s.cache \in {"degraded", "unhealthy"}
                  THEN "degraded"
                  ELSE "healthy"

\* Only the cache is down: the response is degraded.
C24_Witness ==
    /\ response.kind = "health"
    /\ probe.services.database = "healthy"
    /\ probe.services.rate_aggregator = "healthy"
    /\ probe.services.cache = "unhealthy"
    /\ response.status = "degraded"

(***************************************************************************)
(* Properties of the breaker under concurrency (SpecConcurrent)            *)
(***************************************************************************)

\* Both coroutines have been through call() with a wrapped function that
\* raised and an _on_failure that reached the INCR, each run was inside
\* the breaker together with the other one and with no other run, and no
\* time passed meanwhile.
BothFailed ==
    \A c \in Callers :
        /\ flight.co[c].pc = "done"
        /\ flight.co[c].kind = "call"
        /\ flight.co[c].raised
        /\ flight.co[c].before # -1
        /\ flight.co[c].met = 1
        /\ ~flight.co[c].aged

\* The failures key as the first of the two INCRs met it.
CountBefore == Min(flight.co["a"].before, flight.co["b"].before)

\* C25: two calls through the same breaker whose failures complete
\* concurrently are both counted: after both the stored failure count has
\* grown by 2, and if the threshold was reached the state is OPEN.
C25_AsStated ==
    BothFailed =>
        /\ get_failure_count(cb[direct]) = CountBefore + 2
        /\ CountBefore + 2 >= failure_threshold
              => get_circuit_breaker_state(cb[direct]) = OPEN

\* Two concurrent failures have completed and the second INCR took the
\* count past the threshold.
C25_Witness ==
    /\ BothFailed
    /\ CountBefore + 2 > failure_threshold
    /\ get_circuit_breaker_state(cb[direct]) = OPEN

\* C26: in every reachable state of the shared keys, between the steps of
\* any transition as well, a breaker whose state entry is OPEN has its
\* last-failure entry set.
C26_OpenHasStamp ==
    \A p \in Providers :
        cb[p].state = OPEN =>
            /\ cb[p].last_failure # -1
            /\ cb[p].last_failure_ttl > 0

\* OPEN has just been written while the other coroutine stands between
\* the two commands of its own transition.
C26_Witness ==
    /\ cb[direct].state = OPEN
    /\ cb[direct].last_failure = 0
    /\ \E c \in Callers :
          flight.co[c].pc \in {"closed_reset", "open_write"}

\* C27: whenever the breaker's state reads OPEN, a failure of the provider
\* was recorded within the preceding recovery_timeout.
C27_AsStated ==
    get_circuit_breaker_state(cb[direct]) = OPEN =>
        /\ flight.failure_age # -1
        /\ flight.failure_age <= recovery_timeout

\* C27 as the code has it: a state that reads OPEN was written, together
\* with a stamp that is still there and younger than CIRCUIT_BREAKER_TTL,
\* by the _on_failure of a call, after a failure was recorded, or by
\* force_open; how long ago the failure was is bounded by the lifetime of
\* the keys, not by recovery_timeout.
C27_Amended ==
    get_circuit_breaker_state(cb[direct]) = OPEN =>
        /\ cb[direct].last_failure \in 0..(CIRCUIT_BREAKER_TTL - 1)
        /\ flight.opened_by \in {"call", "force_open"}
        /\ flight.opened_by = "call" => flight.failure_age # -1

\* The breaker a failed call opened still reads OPEN when the last
\* failure is older than recovery_timeout: no call has been attempted.
C27_Witness ==
    /\ get_circuit_breaker_state(cb[direct]) = OPEN
    /\ flight.opened_by = "call"
    /\ flight.failure_age > recovery_timeout
    /\ cb[direct].last_failure > recovery_timeout

\* In this step the call of coroutine c completes: its handler is through
\* and call() is about to return or re-raise.
Completes(c) ==
    /\ flight.co[c].kind = "call"
    /\ flight.co[c].pc \notin {"idle", "done", "should_attempt_reset"}
    /\ flight'.co[c].pc = "done"

\* C28: HALF_OPEN is transient: no completion of a call, success or
\* failure, leaves the stored state HALF_OPEN.
C28_AsStated ==
    [][\A c \in Callers :
         Completes(c) => get_circuit_breaker_state(cb'[direct]) # HALF_OPEN]_vars

\* C28 as the code has it: a completion leaves the stored state HALF_OPEN
\* only after a success that is not yet the success_threshold-th in a row,
\* or when the state was changed to HALF_OPEN after the handler had read
\* another one; a failure whose handler read HALF_OPEN leaves OPEN.
C28_Amended ==
    [][\A c \in Callers :
         Completes(c) =>
            /\ get_circuit_breaker_state(cb'[direct]) = HALF_OPEN
                  => \/ /\ ~flight'.co[c].raised
                        /\ cb'[direct].consecutive_successes < success_threshold
                     \/ flight'.co[c].current_state # HALF_OPEN
            /\ flight'.co[c].raised /\ flight'.co[c].current_state = HALF_OPEN
                  => get_circuit_breaker_state(cb'[direct]) = OPEN]_vars

\* A successful call whose handler read HALF_OPEN has completed and the
\* stored state is still HALF_OPEN, one success counted.
C28_Witness ==
    \E c \in Callers :
        /\ flight.co[c].pc = "done"
        /\ flight.co[c].kind = "call"
        /\ ~flight.co[c].raised
        /\ flight.co[c].current_state = HALF_OPEN
        /\ flight.co[c].wrote \in {"", HALF_OPEN}
        /\ get_circuit_breaker_state(cb[direct]) = HALF_OPEN
        /\ cb[direct].consecutive_successes = success_threshold - 1

\* The state a handler wrote (admission writes HALF_OPEN only).
HandlerWrote(f) == IF f.wrote \in {OPEN, CLOSED} THEN f.wrote ELSE "none"

\* The rows of the transition table for the completion of a call: the
\* state the table names as successor of (state, event), "none" where it
\* has no row.  count: the failure count after the increment; successes:
\* the consecutive successes after the increment.
TableSuccessor(state, raised, count, successes) ==
    CASE state = CLOSED /\ ~raised -> CLOSED
      [] state = CLOSED /\ raised ->
            IF count >= failure_threshold THEN OPEN ELSE CLOSED
      [] state = HALF_OPEN /\ ~raised ->
            IF successes >= success_threshold THEN CLOSED ELSE HALF_OPEN
      [] state = HALF_OPEN /\ raised -> OPEN
      [] OTHER -> "none"

\* C29: every (stored state, event) pair that occurs, completions of calls
\* admitted before another call changed the state included, has the one
\* successor the transition table gives it.  The state of the pair is the
\* one the completing call's handler read.
C29_AsStated ==
    [][\A c \in Callers :
         Completes(c) =>
            LET f == flight'.co[c]
                t == TableSuccessor(f.current_state, f.raised, f.before + 1,
                                    cb'[direct].consecutive_successes)
            IN  /\ t # "none"
                /\ get_circuit_breaker_state(cb'[direct]) = t]_vars

\* C29 as the code has it: what a completing call does is fixed by the
\* state its handler read, the event and the counters.  Read HALF_OPEN: a
\* failure writes OPEN, a success writes CLOSED at the threshold and
\* nothing before it.  Read CLOSED or OPEN: a failure increments the count
\* and writes OPEN (with a new stamp) when the count reaches the
\* threshold, nothing otherwise; a success writes no state.
C29_Amended ==
    [][\A c \in Callers :
         Completes(c) =>
            LET f == flight'.co[c]
                stored == get_circuit_breaker_state(cb'[direct])
            IN  CASE f.current_state = HALF_OPEN /\ f.raised ->
                        HandlerWrote(f) = OPEN /\ stored = OPEN
                  [] f.current_state = HALF_OPEN /\ ~f.raised ->
                        \/ HandlerWrote(f) = CLOSED
                        \/ /\ HandlerWrote(f) = "none"
                           /\ stored = HALF_OPEN
                           /\ cb'[direct].consecutive_successes
                                 < success_threshold
                  [] f.current_state \in {CLOSED, OPEN} /\ f.raised ->
                        IF f.before + 1 >= failure_threshold
                        THEN HandlerWrote(f) = OPEN /\ stored = OPEN
                        ELSE HandlerWrote(f) = "none"
                  [] f.current_state \in {CLOSED, OPEN} /\ ~f.raised ->
                        HandlerWrote(f) = "none"]_vars

\* A call admitted while the breaker was not OPEN has completed with a
\* failure after another coroutine opened it: its handler read OPEN,
\* counted the failure and wrote OPEN again.
C29_Witness ==
    \E c \in Callers :
        /\ flight.co[c].pc = "done"
        /\ flight.co[c].kind = "call"
        /\ flight.co[c].raised
        /\ flight.co[c].current_state = OPEN
        /\ flight.co[c].wrote = OPEN

(***************************************************************************)
(* Properties of the worker, await by await (SpecIngestorOrder)            *)
(***************************************************************************)

\* A set_latest_rate of base i is in flight.
Writing(i) == worker.phase[i] = "write"

\* For every pair: a publish belongs to the cycle of the last cache write,
\* and no write is in flight for the pair from two bases at once.
OrderedNow ==
    /\ \A pair \in WorkerPairs :
          /\ worker.sent_in[pair] <= worker.wrote_in[pair]
          /\ worker.wrote_in[pair] <= worker.cycle_count
    /\ \A i \in DOMAIN base_currencies : \A j \in DOMAIN base_currencies :
          Writing(i) /\ Writing(j) /\ i # j
              => PairOf(worker, i) # PairOf(worker, j)
    /\ worker.pc # "cycle" =>
          \A i \in DOMAIN base_currencies : worker.phase[i] = "fetch"

\* For every pair: a cache write is the first of its cycle and comes
\* after every publish so far; a publish is the first of its cycle and
\* follows the write of the same cycle.
OrderedStep ==
    \A pair \in WorkerPairs :
        /\ worker'.wrote[pair] /\ ~worker.wrote[pair] =>
              /\ worker'.wrote_in[pair] = worker.cycle_count
              /\ worker.wrote_in[pair] < worker.cycle_count
              /\ worker.sent_in[pair] < worker.cycle_count
        /\ worker'.published[pair] # worker.published[pair] =>
              /\ worker'.sent_in[pair] = worker.cycle_count
              /\ worker.sent_in[pair] < worker.cycle_count
              /\ worker.wrote_in[pair] = worker.cycle_count

SelfPairs == {pair \in WorkerPairs : pair[1] = pair[2]}

\* C31: the worker never calls get_exchange_rate, writes the cache or
\* publishes for a pair whose target equals its base, even when a base
\* currency is one of the target currencies.
C31_AsStated ==
    \A pair \in SelfPairs :
        /\ worker.results[pair] = "none"
        /\ worker.wrote_in[pair] = 0
        /\ worker.published[pair] = 0
        /\ \A i \in DOMAIN base_currencies :
              worker.phase[i] # "fetch" => PairOf(worker, i) # pair

\* The worker has fetched, written and published USD/USD.
C31_Witness ==
    \E pair \in SelfPairs :
        /\ worker.results[pair] = "ok"
        /\ worker.wrote_in[pair] = worker.cycle_count
        /\ worker.sent_in[pair] = worker.cycle_count
        /\ worker.published[pair] > 0

(***************************************************************************)
(* Properties of ConnectionManager.broadcast (SpecBroadcast)               *)
(***************************************************************************)

\* C32: broadcast delivers the message to every matching connection that
\* is registered when it starts and completes without error, even if
\* connections are added or removed while it is suspended in a send.
C32_AsStated ==
    /\ ws.bc.pc # "raised"
    /\ ws.bc.pc = "done" =>
          ws.bc.targets \subseteq ws.bc.sent \cup ws.bc.failed_connections

\* A broadcast that was suspended in a send while another socket was
\* deregistered has ended with the iterator's exception, and a matching
\* socket that is still registered has not been sent to.
C32_Witness ==
    /\ ws.bc.pc = "raised"
    /\ ws.bc.sent # {}
    /\ \E c \in ws.bc.targets \ (ws.bc.sent \cup ws.bc.failed_connections) :
          c \in DOMAIN ws.active_connections

(***************************************************************************)
(* Properties of the fan-out of get_exchange_rate (SpecFanout)             *)
(***************************************************************************)

C34_AsStated ==
    probe.kind = "batch" =>
        /\ response.kind = probe.single.kind
        /\ response.kind = "rate" =>
              /\ response.rate = probe.single.rate
              /\ response.confidence_level = probe.single.confidence_level
              /\ response.sources_used = probe.single.sources_used
              /\ response.is_primary_used = probe.single.is_primary_used

\* Both paths have fused the primary's rate with a secondary's.
C34_Witness ==
    /\ probe.kind = "batch"
    /\ probe.outs[primary_provider].kind = "ok"
    /\ \E p \in Providers \ {primary_provider} : probe.outs[p].kind = "ok"
    /\ response.kind = "rate"
    /\ probe.single.kind = "rate"

\* The secondaries whose call of the pending request succeeded, in order,
\* and the successful rates with the primary's first.
FanOkSecondaries ==
    SelectSeq(SecondaryProviders, LAMBDA n : flight.fan.t[n].seen = "ok")

FanOkRates ==
    <<flight.fan.t[primary_provider].rate>>
        \o [i \in 1..Len(FanOkSecondaries) |->
               flight.fan.t[FanOkSecondaries[i]].rate]

FanMean == DecimalDiv(SumSeq(FanOkRates), Len(FanOkRates))

\* The request has fused the primary with at least one secondary, all
\* rates within the deviation bound of their mean.
FusedWithin ==
    /\ flight.fan.pc = "fused"
    /\ flight.fan.t[primary_provider].seen = "ok"
    /\ Len(FanOkSecondaries) > 0
    /\ MaxDeviation(FanOkRates, FanMean) < DEVIATION_THRESHOLD

\* C35: when the primary and at least one secondary succeed with rates
\* within the deviation bound, get_exchange_rate returns cached false, the
\* mean of the successful rates, confidence high, sources the primary then
\* the secondaries, is_primary_used false, and the rates entry holds that
\* result with the full TTL; the entry is written at one point of the call
\* only, after fusion.
C35_FusedMean ==
    /\ [](FusedWithin =>
            /\ response.kind = "rate"
            /\ ~response.cached
            /\ response.rate = FanMean
            /\ response.confidence_level = "high"
            /\ response.sources_used = <<primary_provider>> \o FanOkSecondaries
            /\ ~response.is_primary_used
            /\ rates[flight.fan.pair].ttl = RATE_CACHE_TTL
            /\ StrToDecimal(rates[flight.fan.pair].rate) = response.rate
            /\ rates[flight.fan.pair].confidence_level = "high"
            /\ rates[flight.fan.pair].sources_used = response.sources_used
            /\ ~rates[flight.fan.pair].is_primary_used)
    /\ [][\A pair \in Pairs :
            (rates'[pair] # rates[pair] /\ rates'[pair].ttl = RATE_CACHE_TTL)
                => /\ flight.fan.pc = "secondaries"
                   /\ flight'.fan.pc = "fused"
                   /\ flight.fan.pair = pair]_vars

\* A mean that is neither the primary's rate nor a secondary's has been
\* returned and cached.
C35_Witness ==
    /\ FusedWithin
    /\ response.kind = "rate"
    /\ \A p \in Providers : flight.fan.t[p].seen = "ok"
                               => flight.fan.t[p].rate # response.rate
    /\ rates[flight.fan.pair].ttl = RATE_CACHE_TTL

(***************************************************************************)
(* Properties of the ingestor and the fresh cache (SpecIngestor)           *)
(***************************************************************************)

\* The step is the pass of the current cycle for the pair.
PassOf(pair) ==
    /\ worker.pc = "cycle"
    /\ worker.results[pair] = "none"
    /\ worker'.results[pair] # "none"

\* C36: with update_interval shorter than the fresh TTL, an entry the
\* ingestor wrote in a cycle is still there after the sleep, with its
\* rate; a pass that finds the pair's entry and gets a result is served
\* from it, goes to no breaker and no provider, and writes the entry back
\* unchanged but for the TTL, which starts anew.
C36_KeptFresh ==
    [][\A pair \in WorkerPairs :
         /\ (worker.pc = "sleep" /\ worker'.pc = "check"
                /\ worker.wrote[pair])
              => /\ rates'[pair] # NoEntry
                 /\ rates'[pair].rate = rates[pair].rate
         /\ (PassOf(pair) /\ rates[pair] # NoEntry
                /\ worker'.results[pair] = "ok")
              => /\ worker'.contacted[pair] = {}
                 /\ cb' = cb
                 /\ history' = history
                 /\ rates'[pair].ttl = RATE_CACHE_TTL
                 /\ rates'[pair].rate = rates[pair].rate
                 /\ rates'[pair].confidence_level
                        = rates[pair].confidence_level
                 /\ rates'[pair].sources_used = rates[pair].sources_used]_vars

\* In the second cycle the entry of the first has been found, with less
\* than its full TTL left, and written back with the full TTL without a
\* provider being asked.
C36_Witness ==
    /\ worker.cycle_count = 2
    /\ \E pair \in WorkerPairs :
         /\ worker.results[pair] = "ok"
         /\ worker.wrote[pair]
         /\ worker.contacted[pair] = {}
         /\ rates[pair].ttl = RATE_CACHE_TTL
         /\ rates[pair].timestamp > 0

(***************************************************************************)
(* Properties of the ingestor and the API on one cache (SpecServing)       *)
(***************************************************************************)

\* The step is a pass of the worker, or a request of the API.
PassStep == calls' = calls + 1 /\ probe'.kind = "pass"

AskStep == calls' = calls + 1 /\ probe'.kind = "call"

\* C37: a pass of the ingestor writes every result it obtains to the
\* pair's rates entry with the fresh TTL, the stale-fallback results
\* (confidence low, cached) included; get_exchange_rate by itself leaves
\* the entry alone when it answers from a stale row; and a call that finds
\* an entry, whatever its confidence, answers with the entry's rate and
\* confidence as a cache hit, without a breaker or provider being called.
C37_StaleAsFresh ==
    [][/\ (PassStep /\ probe'.result.kind = "rate")
            => /\ rates'[probe'.pair].ttl = RATE_CACHE_TTL
               /\ StrToDecimal(rates'[probe'.pair].rate) = probe'.result.rate
               /\ rates'[probe'.pair].confidence_level
                      = probe'.result.confidence_level
       /\ (AskStep /\ probe'.entry_before = NoEntry
              /\ response'.kind = "rate" /\ response'.cached)
            => /\ response'.confidence_level = "low"
               /\ rates'[probe'.pair] = NoEntry
       /\ (AskStep /\ probe'.valid /\ probe'.entry_before # NoEntry)
            => /\ response'.kind = "rate"
               /\ response'.cached
               /\ response'.rate = StrToDecimal(probe'.entry_before.rate)
               /\ response'.confidence_level
                      = probe'.entry_before.confidence_level
               /\ probe'.trace.breaker_calls = {}
               /\ probe'.trace.invoked = {}
               /\ ~probe'.trace.stale_read]_vars

\* A request has been answered from an entry of confidence low at a time
\* when the entry had not run down by a tick: the stale rate the ingestor
\* wrote is served as a fresh hit.
C37_Witness ==
    /\ probe.kind = "call"
    /\ probe.entry_before # NoEntry
    /\ probe.entry_before.confidence_level = "low"
    /\ probe.entry_before.ttl = RATE_CACHE_TTL
    /\ response.kind = "rate"
    /\ response.cached
    /\ response.confidence_level = "low"
    /\ probe.trace.breaker_calls = {}

(***************************************************************************)
(* Properties of a provider behind its breaker (SpecProvider)              *)
(***************************************************************************)

\* The last call was admitted and came back with a Call Result whose
\* payload reports an error.
PayloadSeen == cb_event.kind = "try" /\ cb_event.seen = "payload"

\* C38: a call that returns a Call Result with success false is recorded
\* as a success: read CLOSED, the failure count is reset and the state
\* stays CLOSED; read HALF_OPEN (also just written, at an OPEN breaker
\* whose cooldown has elapsed), it counts toward success_threshold and
\* closes the breaker when the threshold is reached; and the breaker opens
\* only in a call whose function raised.
C38_PayloadIsSuccess ==
    /\ [](PayloadSeen =>
            LET before == get_circuit_breaker_state(cb_event.before)
                counted == IF before = HALF_OPEN
                           THEN cb_event.before.consecutive_successes + 1
                           ELSE 1
            IN  /\ get_circuit_breaker_state(cb_event.after) # OPEN
                /\ before = CLOSED
                      => /\ get_circuit_breaker_state(cb_event.after) = CLOSED
                         /\ cb_event.after.failures = -1
                /\ before # CLOSED
                      => IF counted >= success_threshold
                         THEN /\ cb_event.after.state = CLOSED
                              /\ get_failure_count(cb_event.after) = 0
                         ELSE /\ cb_event.after.state = HALF_OPEN
                              /\ cb_event.after.consecutive_successes
                                     = counted)
    /\ [][(get_circuit_breaker_state(cb[direct]) # OPEN
            /\ get_circuit_breaker_state(cb'[direct]) = OPEN)
              => /\ cb_event'.kind = "try"
                 /\ cb_event'.outcome = "raise"]_vars

\* A payload error has met a recorded failure in CLOSED and wiped it.
C38_Witness ==
    /\ PayloadSeen
    /\ get_circuit_breaker_state(cb_event.before) = CLOSED
    /\ get_failure_count(cb_event.before) = failure_threshold - 1
    /\ cb_event.after.failures = -1

(***************************************************************************)
(* Properties of a breaker whose cooldown outlasts its keys (SpecLong)     *)
(***************************************************************************)

\* C39: the state, failures and last-failure keys written when the
\* breaker opens run out together, CIRCUIT_BREAKER_TTL after the write;
\* from then on the breaker reads CLOSED with failure count 0 and a call
\* is admitted with no HALF_OPEN written; and with recovery_timeout above
\* that TTL a call that reads the stamp of an OPEN breaker is always
\* rejected, so that HALF_OPEN is written only when the stamp cannot be
\* read.
C39_ExpiresClosed ==
    /\ [](cb[direct].state = OPEN =>
            /\ cb[direct].last_failure # -1
            /\ cb[direct].last_failure < CIRCUIT_BREAKER_TTL
            /\ cb[direct].state_ttl
                   = CIRCUIT_BREAKER_TTL - cb[direct].last_failure
            /\ cb[direct].last_failure_ttl = cb[direct].state_ttl
            /\ cb[direct].failures_ttl = cb[direct].state_ttl)
    /\ []((cb_event.kind = "call" /\ cb_event.before.state = "nil") =>
            /\ cb_event.result # "blocked"
            /\ cb_event.admitted = cb_event.before)
    /\ []((cb_event.kind = "call" /\ cb_event.before.state = OPEN
             /\ cb_event.readable) => cb_event.result = "blocked")
    /\ [][/\ (cb[direct].state = OPEN /\ cb'[direct].state = "nil")
                => /\ cb'[direct].state_ttl = 0
                   /\ get_circuit_breaker_state(cb'[direct]) = CLOSED
                   /\ get_failure_count(cb'[direct]) = 0
                   /\ cb'[direct].last_failure = -1
                   /\ cb_event' = cb_event
          /\ (cb[direct].state # HALF_OPEN /\ cb'[direct].state = HALF_OPEN)
                => ~cb_event'.readable]_vars

\* The breaker was opened by the last call and, with no call since, reads
\* CLOSED with failure count 0.
C39_Witness ==
    /\ cb_event.kind = "call"
    /\ cb_event.after.state = OPEN
    /\ cb[direct].state = "nil"
    /\ get_circuit_breaker_state(cb[direct]) = CLOSED
    /\ get_failure_count(cb[direct]) = 0

(***************************************************************************)
(* Properties of the breaker on probation (SpecHalfOpen)                   *)
(***************************************************************************)

\* Both coroutines were admitted by a call() that read HALF_OPEN, ran
\* side by side and are through, with no time passed: c's function raised,
\* d's returned and its _on_success counted up to success_threshold and
\* wrote CLOSED.
FailedBesideClosing(c, d) ==
    /\ c # d
    /\ \A e \in {c, d} :
         /\ flight.co[e].kind = "call"
         /\ flight.co[e].pc = "done"
         /\ flight.co[e].admitted = HALF_OPEN
         /\ flight.co[e].met = 1
         /\ ~flight.co[e].aged
    /\ flight.co[c].raised
    /\ ~flight.co[d].raised
    /\ flight.co[d].current_state = HALF_OPEN
    /\ flight.co[d].wrote = CLOSED

\* C40 as stated: when two calls are admitted together in HALF_OPEN, one
\* fails and the other's success reaches success_threshold, the stored
\* state after both have completed is OPEN.
C40_AsStated ==
    \A c, d \in Callers :
        FailedBesideClosing(c, d)
            => get_circuit_breaker_state(cb[direct]) = OPEN

\* Both are through and the stored state reads CLOSED although the failed
\* call's _on_failure read HALF_OPEN and wrote OPEN.
C40_Witness ==
    \E c, d \in Callers :
        /\ FailedBesideClosing(c, d)
        /\ flight.co[c].current_state = HALF_OPEN
        /\ flight.co[c].wrote = OPEN
        /\ get_circuit_breaker_state(cb[direct]) = CLOSED

=============================================================================
